---- MODULE Spec2Model ----
(***************************************************************************)
(* Call graph builder and DB access correlator of the static analyser.     *)
(* Strings are TLA+ strings; the Python string operations the code uses    *)
(* (in, split, lower, startswith, endswith, sorted) are defined below.     *)
(***************************************************************************)
EXTENDS Integers, Sequences, FiniteSets, TLC

\* The first five variables are the fields of the CallGraphBuilder; cache is
\* the store of the parser's cache manager; workers are the frames of the
\* pool's workers inside parse_file and parses counts, per file, the calls of
\* self.parser.parse and of set_cached_result (SpecPool). SpecParse (the other
\* specifications take the outcome of parse_file for each file as given);
\* builds counts the builds; op, arg and ret record the last call.
VARIABLES call_graph, method_metadata, class_info_map, file_to_classes_map,
          endpoints, cache, workers, parses, builds, op, arg, ret

vars == <<call_graph, method_metadata, class_info_map, file_to_classes_map,
          endpoints, cache, workers, parses, builds, op, arg, ret>>

builder == <<call_graph, method_metadata, class_info_map, file_to_classes_map, endpoints>>

(***************************************************************************)
(* Python string and list primitives                                       *)
(***************************************************************************)
Range(s) == {s[i] : i \in DOMAIN s}

CharAt(s, i) == SubSeq(s, i, i)

\* p in s
Contains(s, p) == \E i \in 1..(Len(s) - Len(p) + 1) : SubSeq(s, i, i + Len(p) - 1) = p

\* s.find(p) + 1, 0 when absent
IndexOf(s, p) ==
    IF Contains(s, p)
    THEN CHOOSE i \in 1..(Len(s) - Len(p) + 1) :
            /\ SubSeq(s, i, i + Len(p) - 1) = p
            /\ \A j \in 1..(i - 1) : SubSeq(s, j, j + Len(p) - 1) # p
    ELSE 0

StartsWith(s, p) == Len(s) >= Len(p) /\ SubSeq(s, 1, Len(p)) = p

EndsWith(s, p) == Len(s) >= Len(p) /\ SubSeq(s, Len(s) - Len(p) + 1, Len(s)) = p

UpperChars == "ABCDEFGHIJKLMNOPQRSTUVWXYZ"

LowerChars == "abcdefghijklmnopqrstuvwxyz"

\* upper-case letter -> lower-case letter
LowerOf ==
    [c \in {CharAt(UpperChars, i) : i \in 1..Len(UpperChars)} |->
        CharAt(LowerChars, IndexOf(UpperChars, c))]

LowerChar(c) == IF c \in DOMAIN LowerOf THEN LowerOf[c] ELSE c

RECURSIVE Lower(_)
\* s.lower(), by halves
Lower(s) ==
    IF Len(s) = 0 THEN ""
    ELSE IF Len(s) = 1 THEN LowerChar(s)
    ELSE Lower(SubSeq(s, 1, Len(s) \div 2)) \o Lower(SubSeq(s, Len(s) \div 2 + 1, Len(s)))

RECURSIVE Split(_, _)
\* s.split(sep) for a one-character separator
Split(s, sep) ==
    IF ~Contains(s, sep) THEN <<s>>
    ELSE LET i == IndexOf(s, sep)
         IN <<SubSeq(s, 1, i - 1)>> \o Split(SubSeq(s, i + 1, Len(s)), sep)

Last(q) == q[Len(q)]

\* the order of characters that sorted() uses on the strings of the model
CharOrder == "#$-./0123456789:<=>ABCDEFGHIJKLMNOPQRSTUVWXYZ_abcdefghijklmnopqrstuvwxyz"

\* character -> its rank in CharOrder
OrdOf == [c \in {CharAt(CharOrder, i) : i \in 1..Len(CharOrder)} |-> IndexOf(CharOrder, c)]

Ord(c) == IF c \in DOMAIN OrdOf THEN OrdOf[c] ELSE 0

\* a < b on Python strings: a is a proper prefix of b, or smaller at the first difference
StrLess(a, b) ==
    LET n == IF Len(a) < Len(b) THEN Len(a) ELSE Len(b)
    IN \/ Len(a) < Len(b) /\ SubSeq(b, 1, Len(a)) = a
       \/ \E i \in 1..n : /\ SubSeq(a, 1, i - 1) = SubSeq(b, 1, i - 1)
                           /\ Ord(CharAt(a, i)) < Ord(CharAt(b, i))

RECURSIVE Sorted(_)
\* sorted(list(S)) for a set of strings
Sorted(S) ==
    IF S = {} THEN <<>>
    ELSE LET m == CHOOSE x \in S : \A y \in S \ {x} : StrLess(x, y)
         IN <<m>> \o Sorted(S \ {m})

\* dict.get(key, default) on a function
Get(d, k, default) == IF k \in DOMAIN d THEN d[k] ELSE default

\* d[k] = v on a function
Put(d, k, v) == [x \in (DOMAIN d) \cup {k} |-> IF x = k THEN v ELSE d[x]]

EmptyDict == [x \in {} |-> ""]

(***************************************************************************)
(* Layer classification                                                    *)
(***************************************************************************)
\* LAYER_PATTERNS, in the dict's insertion order
LAYER_PATTERNS == <<
    [layer |-> "Controller", patterns |-> <<"Controller", "RestController", "WebController">>],
    [layer |-> "Service",    patterns |-> <<"Service", "BusinessService", "ApplicationService">>],
    [layer |-> "Repository", patterns |-> <<"Repository", "JpaRepository", "CrudRepository",
                                             "DAO", "Dao", "JdbcDao", "JdbcTemplateDao">>],
    [layer |-> "Mapper",     patterns |-> <<"Mapper", "MyBatisMapper", "SqlMapper">>],
    [layer |-> "Entity",     patterns |-> <<"Entity", "Domain", "Model", "POJO">>] >>

AnyContains(strs, p) == \E i \in DOMAIN strs : Contains(strs[i], p)

\* the annotation tier: "" when no annotation rule matches
AnnotationLayer(cls, method) ==
    LET all_annotations == cls.annotations \o method.annotations
        annotation_lower == [i \in DOMAIN all_annotations |-> Lower(all_annotations[i])]
    IN IF AnyContains(annotation_lower, "controller") \/ AnyContains(annotation_lower, "restcontroller")
       THEN "Controller"
       ELSE IF AnyContains(annotation_lower, "service") THEN "Service"
       ELSE IF AnyContains(annotation_lower, "mapper") THEN "Mapper"
       ELSE IF AnyContains(annotation_lower, "repository") THEN "Repository"
       ELSE IF AnyContains(annotation_lower, "entity") \/ AnyContains(annotation_lower, "table")
       THEN "Entity"
       ELSE ""

\* the class-name tier: first layer of LAYER_PATTERNS one of whose patterns is in the name
ClassNameLayer(cls) ==
    LET hit(i) == \E j \in DOMAIN LAYER_PATTERNS[i].patterns :
                     Contains(cls.name, LAYER_PATTERNS[i].patterns[j])
    IN IF \E i \in DOMAIN LAYER_PATTERNS : hit(i)
       THEN LAYER_PATTERNS[CHOOSE i \in DOMAIN LAYER_PATTERNS :
                              hit(i) /\ \A k \in 1..(i - 1) : ~hit(k)].layer
       ELSE ""

\* the layer one interface name gives, "" when none
OneInterfaceLayer(interface) ==
    LET interface_lower == Lower(interface)
    IN IF Contains(interface_lower, "mapper") \/ Contains(interface_lower, "sqlmapper")
       THEN "Mapper"
       ELSE IF Contains(interface_lower, "repository") \/ Contains(interface_lower, "jparepository")
       THEN "Repository"
       ELSE IF Contains(interface_lower, "crudrepository") \/ Contains(interface_lower, "pagerepository")
       THEN "Repository"
       ELSE ""

\* the interface tier: the first interface that gives a layer decides
InterfaceLayer(cls) ==
    LET hit(i) == OneInterfaceLayer(cls.interfaces[i]) # ""
    IN IF \E i \in DOMAIN cls.interfaces : hit(i)
       THEN OneInterfaceLayer(cls.interfaces[CHOOSE i \in DOMAIN cls.interfaces :
                                                hit(i) /\ \A k \in 1..(i - 1) : ~hit(k)])
       ELSE ""

\* the package tier
PackageLayer(cls) ==
    LET package == Lower(cls.package)
    IN IF Contains(package, "controller") \/ Contains(package, "web") \/ Contains(package, "api")
       THEN "Controller"
       ELSE IF Contains(package, "service") \/ Contains(package, "business") THEN "Service"
       ELSE IF Contains(package, "mapper") \/ Contains(package, "mybatis") THEN "Mapper"
       ELSE IF Contains(package, "repository") \/ Contains(package, "jpa") THEN "Repository"
       ELSE IF Contains(package, "dao") \/ Contains(package, "data") THEN "DAO"
       ELSE IF Contains(package, "entity") \/ Contains(package, "domain")
               \/ Contains(package, "model") \/ Contains(package, "beans")
       THEN "Entity"
       ELSE ""

\* the layer one field gives, "" when none
OneFieldLayer(fld) ==
    LET field_type == Lower(fld.type)
    IN IF Contains(field_type, "entitymanager") \/ Contains(field_type, "entitymanagerfactory")
       THEN "Repository"
       ELSE IF Contains(field_type, "sqlsession") \/ Contains(field_type, "sqlsessiontemplate")
       THEN "Mapper"
       ELSE IF Contains(field_type, "jdbctemplate") \/ Contains(field_type, "datasource")
       THEN "DAO"
       ELSE ""

\* the field tier: the first field that gives a layer decides
FieldLayer(cls) ==
    LET hit(i) == OneFieldLayer(cls.fields[i]) # ""
    IN IF \E i \in DOMAIN cls.fields : hit(i)
       THEN OneFieldLayer(cls.fields[CHOOSE i \in DOMAIN cls.fields :
                                        hit(i) /\ \A k \in 1..(i - 1) : ~hit(k)])
       ELSE ""

\* _classify_layer when the field tier is left out
_classify_layer_without_fields(cls, method) ==
    IF AnnotationLayer(cls, method) # "" THEN AnnotationLayer(cls, method)
    ELSE IF ClassNameLayer(cls) # "" THEN ClassNameLayer(cls)
    ELSE IF InterfaceLayer(cls) # "" THEN InterfaceLayer(cls)
    ELSE IF PackageLayer(cls) # "" THEN PackageLayer(cls)
    ELSE "Unknown"

\* _classify_layer when the package tier is evaluated before the class-name tier
_classify_layer_package_first(cls, method) ==
    IF AnnotationLayer(cls, method) # "" THEN AnnotationLayer(cls, method)
    ELSE IF PackageLayer(cls) # "" THEN PackageLayer(cls)
    ELSE IF ClassNameLayer(cls) # "" THEN ClassNameLayer(cls)
    ELSE IF InterfaceLayer(cls) # "" THEN InterfaceLayer(cls)
    ELSE IF FieldLayer(cls) # "" THEN FieldLayer(cls)
    ELSE "Unknown"

\* _classify_layer: first tier that matches, Unknown otherwise
_classify_layer(cls, method) ==
    IF AnnotationLayer(cls, method) # "" THEN AnnotationLayer(cls, method)
    ELSE IF ClassNameLayer(cls) # "" THEN ClassNameLayer(cls)
    ELSE IF InterfaceLayer(cls) # "" THEN InterfaceLayer(cls)
    ELSE IF PackageLayer(cls) # "" THEN PackageLayer(cls)
    ELSE IF FieldLayer(cls) # "" THEN FieldLayer(cls)
    ELSE "Unknown"

(***************************************************************************)
(* Annotation text: the regular expressions of the endpoint extraction     *)
(***************************************************************************)
IsSpace(c) == c = " " \/ c = "\t" \/ c = "\n"

IsQuote(c) == c = "\"" \/ c = "'"

WordChars == "ABCDEFGHIJKLMNOPQRSTUVWXYZabcdefghijklmnopqrstuvwxyz0123456789_"

\* lower-case letter -> upper-case letter
UpperOf ==
    [c \in {CharAt(LowerChars, i) : i \in 1..Len(LowerChars)} |->
        CharAt(UpperChars, IndexOf(LowerChars, c))]

UpperChar(c) == IF c \in DOMAIN UpperOf THEN UpperOf[c] ELSE c

RECURSIVE Upper(_)
\* s.upper(), by halves
Upper(s) ==
    IF Len(s) = 0 THEN ""
    ELSE IF Len(s) = 1 THEN UpperChar(s)
    ELSE Upper(SubSeq(s, 1, Len(s) \div 2)) \o Upper(SubSeq(s, Len(s) \div 2 + 1, Len(s)))

\* the end of the run of characters that satisfy In, from position i (i <= Len(s) + 1)
RunEnd(s, i, In(_)) ==
    CHOOSE j \in i..(Len(s) + 1) :
        /\ \A k \in i..(j - 1) : In(CharAt(s, k))
        /\ j = Len(s) + 1 \/ ~In(CharAt(s, j))

\* \s* from position i: the position after the run
SkipSpaces(s, i) == RunEnd(s, i, IsSpace)

\* [^"']* from position i: the position after the run
NonQuoteEnd(s, i) == RunEnd(s, i, LAMBDA c : ~IsQuote(c))

\* \w* from position i: the position after the run
WordEnd(s, i) == RunEnd(s, i, LAMBDA c : Contains(WordChars, c))

\* ["']([^"']+)["'] at position i: [group, next position], group "" when it does not match
QuotedAt(s, i) ==
    IF i <= Len(s) /\ IsQuote(CharAt(s, i))
    THEN LET e == NonQuoteEnd(s, i + 1)
         IN IF e > i + 1 /\ e <= Len(s)
            THEN [group |-> SubSeq(s, i + 1, e - 1), next |-> e + 1]
            ELSE [group |-> "", next |-> i]
    ELSE [group |-> "", next |-> i]

\* key\s*=\s*["']([^"']+)["'] at position i
KeyValueAt(s, i, key) ==
    IF i + Len(key) - 1 <= Len(s) /\ SubSeq(s, i, i + Len(key) - 1) = key
    THEN LET j == SkipSpaces(s, i + Len(key))
         IN IF j <= Len(s) /\ CharAt(s, j) = "="
            THEN QuotedAt(s, SkipSpaces(s, j + 1)).group
            ELSE ""
    ELSE ""

\* \(\s*["']([^"']+)["'] at position i, followed by \s*\) when closed is required
ParenValueAt(s, i, closed) ==
    IF i <= Len(s) /\ CharAt(s, i) = "("
    THEN LET q == QuotedAt(s, SkipSpaces(s, i + 1))
             j == SkipSpaces(s, q.next)
         IN IF q.group # "" /\ (closed => (j <= Len(s) /\ CharAt(s, j) = ")"))
            THEN q.group
            ELSE ""
    ELSE ""

\* re.search: the group of the leftmost match, "" when there is none
SearchGroup(s, At(_, _)) ==
    LET matches == {i \in 1..Len(s) : At(s, i) # ""}
    IN IF matches = {} THEN ""
       ELSE At(s, CHOOSE i \in matches : \A k \in matches : i <= k)

\* _extract_path_from_annotation: "" stands for None
_extract_path_from_annotation(annotation) ==
    LET P1(s, i) == KeyValueAt(s, i, "value")
        P2(s, i) == KeyValueAt(s, i, "path")
        P3(s, i) == ParenValueAt(s, i, TRUE)
        P4(s, i) == ParenValueAt(s, i, FALSE)
    IN IF annotation = "" THEN ""
       ELSE IF SearchGroup(annotation, P1) # "" THEN SearchGroup(annotation, P1)
       ELSE IF SearchGroup(annotation, P2) # "" THEN SearchGroup(annotation, P2)
       ELSE IF SearchGroup(annotation, P3) # "" THEN SearchGroup(annotation, P3)
       ELSE SearchGroup(annotation, P4)

\* method\s*=\s*RequestMethod\.(\w+), ignoring case, at position i
RequestMethodAt(s, i) ==
    LET key == "method"
        cls == "requestmethod."
    IN IF i + Len(key) - 1 <= Len(s) /\ Lower(SubSeq(s, i, i + Len(key) - 1)) = key
       THEN LET j == SkipSpaces(s, i + Len(key))
            IN IF j <= Len(s) /\ CharAt(s, j) = "="
               THEN LET k == SkipSpaces(s, j + 1)
                        w == k + Len(cls)
                    IN IF w - 1 <= Len(s) /\ Lower(SubSeq(s, k, w - 1)) = cls /\ WordEnd(s, w) > w
                       THEN SubSeq(s, w, WordEnd(s, w) - 1)
                       ELSE ""
               ELSE ""
       ELSE ""

\* _extract_http_method_from_annotation: "" stands for None
_extract_http_method_from_annotation(annotation) ==
    IF Contains(annotation, "GetMapping") THEN "GET"
    ELSE IF Contains(annotation, "PostMapping") THEN "POST"
    ELSE IF Contains(annotation, "PutMapping") THEN "PUT"
    ELSE IF Contains(annotation, "DeleteMapping") THEN "DELETE"
    ELSE IF Contains(annotation, "PatchMapping") THEN "PATCH"
    ELSE IF Contains(annotation, "RequestMapping")
    THEN IF SearchGroup(annotation, RequestMethodAt) # ""
         THEN Upper(SearchGroup(annotation, RequestMethodAt))
         ELSE "GET"
    ELSE ""

\* CombinePath when the two paths are always concatenated
CombinePath_concatenates(class_path, method_path) ==
    IF class_path # "" /\ method_path # "" THEN class_path \o method_path
    ELSE IF class_path # "" THEN class_path
    ELSE IF method_path # "" THEN method_path
    ELSE ""

\* the join of class path and method path in _extract_endpoint
CombinePath(class_path, method_path) ==
    IF class_path # "" /\ method_path # ""
    THEN IF EndsWith(class_path, "/") /\ StartsWith(method_path, "/")
         THEN class_path \o SubSeq(method_path, 2, Len(method_path))
         ELSE IF ~EndsWith(class_path, "/") /\ ~StartsWith(method_path, "/")
         THEN class_path \o "/" \o method_path
         ELSE class_path \o method_path
    ELSE IF class_path # "" THEN class_path
    ELSE IF method_path # "" THEN method_path
    ELSE ""

(***************************************************************************)
(* Call graph: a DiGraph keeps its nodes, and the successors and            *)
(* predecessors of each node, in insertion order                           *)
(***************************************************************************)
\* a local name: F applied to the value x
With(x, F(_)) == F(x)

RECURSIVE FoldLeft(_, _, _)
\* acc = Op(acc, x) for x in s; the test makes TLC compute each step once
FoldLeft(Op(_, _), acc, s) ==
    IF s = <<>> THEN acc
    ELSE With(Op(acc, Head(s)), LAMBDA next_acc :
             IF next_acc = next_acc THEN FoldLeft(Op, next_acc, Tail(s)) ELSE acc)

\* self.call_graph = None
NoGraph == [is_none |-> TRUE, nodes |-> <<>>, attrs |-> EmptyDict, succ |-> EmptyDict,
            pred |-> EmptyDict]

\* nx.DiGraph()
DiGraph == [is_none |-> FALSE, nodes |-> <<>>, attrs |-> EmptyDict, succ |-> EmptyDict,
            pred |-> EmptyDict]

HasNode(g, n) == n \in Range(g.nodes)

add_node(g, n, attr) ==
    IF HasNode(g, n) THEN [g EXCEPT !.attrs = Put(@, n, attr)]
    ELSE [g EXCEPT !.nodes = Append(@, n), !.attrs = Put(@, n, attr),
                   !.succ = Put(@, n, <<>>), !.pred = Put(@, n, <<>>)]

add_edge(g, u, v) ==
    LET g1 == IF HasNode(g, u) THEN g ELSE add_node(g, u, EmptyDict)
        g2 == IF HasNode(g1, v) THEN g1 ELSE add_node(g1, v, EmptyDict)
    IN IF v \in Range(g2.succ[u]) THEN g2
       ELSE [g2 EXCEPT !.succ[u] = Append(@, v), !.pred[v] = Append(@, u)]

successors(g, n) == g.succ[n]

predecessors(g, n) == g.pred[n]

Edges(g) == {<<u, v>> \in Range(g.nodes) \X Range(g.nodes) : v \in Range(g.succ[u])}

(***************************************************************************)
(* build_call_graph                                                        *)
(* A source file is [path, error, classes, annotation_text]: error is the  *)
(* message parse_file returns ("" for none), classes is what               *)
(* extract_class_info returns for its tree, annotation_text is what        *)
(* _get_annotation_text_from_file finds for a class or method name.        *)
(***************************************************************************)
Self(g, md, cim, ftc, eps) ==
    [call_graph |-> g, method_metadata |-> md, class_info_map |-> cim,
     file_to_classes_map |-> ftc, endpoints |-> eps]

\* the state __init__ leaves
NewBuilder == Self(NoGraph, EmptyDict, EmptyDict, <<>>, <<>>)

\* ResetState when the metadata map is not cleared
ResetState_keeps_metadata(self) == Self(DiGraph, self.method_metadata, EmptyDict, <<>>, <<>>)

\* the five assignments that open build_call_graph
ResetState(self) == Self(DiGraph, EmptyDict, EmptyDict, <<>>, <<>>)

\* d[k] = v on a dict kept as a sequence of [key, value] in insertion order
PutOrdered(d, k, v) ==
    IF \E i \in DOMAIN d : d[i].key = k
    THEN [i \in DOMAIN d |-> IF d[i].key = k THEN [key |-> k, value |-> v] ELSE d[i]]
    ELSE Append(d, [key |-> k, value |-> v])

\* ParseFiles when a file with an error is not skipped
ParseFiles_keeps_failed(self, java_files) ==
    LET Step(st, f) ==
            [all_classes |-> st.all_classes \o f.classes,
             file_to_classes_map |-> PutOrdered(st.file_to_classes_map, f.path, f.classes),
             class_info_map |-> FoldLeft(LAMBDA m, cls : Put(m, cls.name, cls),
                                         st.class_info_map, f.classes)]
    IN FoldLeft(Step, [all_classes |-> <<>>,
                       file_to_classes_map |-> self.file_to_classes_map,
                       class_info_map |-> self.class_info_map], java_files)

\* the parse loop: a file with an error is skipped
ParseFiles(self, java_files) ==
    LET Step(st, f) ==
            IF f.error # "" THEN st
            ELSE [all_classes |-> st.all_classes \o f.classes,
                  file_to_classes_map |-> PutOrdered(st.file_to_classes_map, f.path, f.classes),
                  class_info_map |-> FoldLeft(LAMBDA m, cls : Put(m, cls.name, cls),
                                              st.class_info_map, f.classes)]
    IN FoldLeft(Step, [all_classes |-> <<>>,
                       file_to_classes_map |-> self.file_to_classes_map,
                       class_info_map |-> self.class_info_map], java_files)

\* List<User> -> List
StripGeneric(type) == IF Contains(type, "<") THEN Split(type, "<")[1] ELSE type

\* name -> type of the declarations that have both
TypeMap(m, decls) ==
    FoldLeft(LAMBDA acc, d : IF d.name # "" /\ d.type # ""
                             THEN Put(acc, d.name, StripGeneric(d.type)) ELSE acc,
             m, decls)

\* class name -> {field name: type}, where the first class of a name keeps its entry
ClassFieldMap_keeps_first(all_classes) ==
    FoldLeft(LAMBDA acc, cls : IF cls.name \in DOMAIN acc THEN acc
                               ELSE Put(acc, cls.name, TypeMap(EmptyDict, cls.fields)),
             EmptyDict, all_classes)

\* class name -> {field name: type}
ClassFieldMap(all_classes) ==
    FoldLeft(LAMBDA acc, cls : Put(acc, cls.name, TypeMap(EmptyDict, cls.fields)),
             EmptyDict, all_classes)

\* parameters, then local variables
MethodVariableMap(method) == TypeMap(TypeMap(EmptyDict, method.parameters), method.local_variables)

Signature(class_name, method_name) == class_name \o "." \o method_name

\* ResolveCall when the parameters and local variables are looked up before the fields
ResolveCall_variables_first(cls, call, current_field_map, method_variable_map, cim) ==
    IF Contains(call, ".")
    THEN LET parts == Split(call, ".")
             object_name == parts[1]
             callee_method == Last(parts)
             Typed(type) == [callee |-> Signature(type, callee_method),
                             callee_file |-> IF type \in DOMAIN cim THEN cim[type].file_path
                                             ELSE cls.file_path]
         IN IF object_name \in DOMAIN method_variable_map
            THEN Typed(method_variable_map[object_name])
            ELSE IF object_name \in DOMAIN current_field_map
            THEN Typed(current_field_map[object_name])
            ELSE [callee |-> call, callee_file |-> cls.file_path]
    ELSE [callee |-> Signature(cls.name, call), callee_file |-> cls.file_path]

\* callee signature and callee file of one call site
ResolveCall(cls, call, current_field_map, method_variable_map, cim) ==
    IF Contains(call, ".")
    THEN LET parts == Split(call, ".")
             object_name == parts[1]
             callee_method == Last(parts)
             Typed(type) == [callee |-> Signature(type, callee_method),
                             callee_file |-> IF type \in DOMAIN cim THEN cim[type].file_path
                                             ELSE cls.file_path]
         IN IF object_name \in DOMAIN current_field_map THEN Typed(current_field_map[object_name])
            ELSE IF object_name \in DOMAIN method_variable_map
            THEN Typed(method_variable_map[object_name])
            ELSE [callee |-> call, callee_file |-> cls.file_path]
    ELSE [callee |-> Signature(cls.name, call), callee_file |-> cls.file_path]

\* the CallRelations of one method, in call-site order
MethodRelations(cls, method, class_field_map, cim) ==
    LET current_field_map == Get(class_field_map, cls.name, EmptyDict)
        method_variable_map == MethodVariableMap(method)
        Step(acc, call) ==
            LET r == ResolveCall(cls, call, current_field_map, method_variable_map, cim)
            IN IF r.callee # ""
               THEN Append(acc, [caller |-> Signature(cls.name, method.name), callee |-> r.callee,
                                 caller_file |-> cls.file_path, callee_file |-> r.callee_file])
               ELSE acc
    IN FoldLeft(Step, <<>>, method.method_calls)

\* the metadata entry stored for a method
Metadata(cls, method) ==
    [class_name |-> cls.name, method |-> method, file_path |-> cls.file_path,
     package |-> cls.package, annotations |-> method.annotations,
     layer |-> _classify_layer(cls, method)]

\* the method loop: metadata of every method and the list of call relations
CollectRelations(self, all_classes, cim) ==
    LET class_field_map == ClassFieldMap(all_classes)
        ClassStep(st, cls) ==
            LET MethodStep(acc, method) ==
                    [method_metadata |-> Put(acc.method_metadata, Signature(cls.name, method.name),
                                             Metadata(cls, method)),
                     call_relations |-> acc.call_relations
                                        \o MethodRelations(cls, method, class_field_map, cim)]
            IN FoldLeft(MethodStep, st, cls.methods)
    IN FoldLeft(ClassStep, [method_metadata |-> self.method_metadata, call_relations |-> <<>>],
                all_classes)

\* NodeAttrs when the layer of a node without metadata is left empty
NodeAttrs_empty_layer(metadata_map, node) ==
    LET metadata == Get(metadata_map, node, EmptyDict)
    IN [class_name |-> Get(metadata, "class_name", ""),
        file_path |-> Get(metadata, "file_path", ""),
        layer |-> Get(metadata, "layer", "")]

\* the attributes a node gets from the metadata map
NodeAttrs(metadata_map, node) ==
    LET metadata == Get(metadata_map, node, EmptyDict)
    IN [class_name |-> Get(metadata, "class_name", ""),
        file_path |-> Get(metadata, "file_path", ""),
        layer |-> Get(metadata, "layer", "Unknown")]

RECURSIVE AddDeclared(_, _, _)
\* a node for every signature of a set
AddDeclared(g, signatures, metadata_map) ==
    IF signatures = {} THEN g
    ELSE LET n == CHOOSE x \in signatures : TRUE
         IN AddDeclared(add_node(g, n, NodeAttrs(metadata_map, n)), signatures \ {n},
                        metadata_map)

\* AddRelations when every method with metadata gets a node first
AddRelations_adds_every_method(g, call_relations, metadata_map) ==
    LET Step(acc, relation) ==
            LET g1 == IF ~HasNode(acc, relation.caller)
                      THEN add_node(acc, relation.caller, NodeAttrs(metadata_map, relation.caller))
                      ELSE acc
                g2 == IF ~HasNode(g1, relation.callee)
                      THEN add_node(g1, relation.callee, NodeAttrs(metadata_map, relation.callee))
                      ELSE g1
            IN add_edge(g2, relation.caller, relation.callee)
    IN FoldLeft(Step, AddDeclared(g, DOMAIN metadata_map, metadata_map), call_relations)

\* the node and edge loop
AddRelations(g, call_relations, metadata_map) ==
    LET Step(acc, relation) ==
            LET g1 == IF ~HasNode(acc, relation.caller)
                      THEN add_node(acc, relation.caller, NodeAttrs(metadata_map, relation.caller))
                      ELSE acc
                g2 == IF ~HasNode(g1, relation.callee)
                      THEN add_node(g1, relation.callee, NodeAttrs(metadata_map, relation.callee))
                      ELSE g1
            IN add_edge(g2, relation.caller, relation.callee)
    IN FoldLeft(Step, g, call_relations)

\* _get_annotation_text_from_file: annotation name -> full text, for a class or a method name
_get_annotation_text_from_file(java_files, file_path, target_name, is_class) ==
    LET found == SelectSeq(java_files, LAMBDA f : f.path = file_path /\ f.error = "")
    IN IF found = <<>> THEN EmptyDict
       ELSE Get(found[1].annotation_text, <<target_name, is_class>>, EmptyDict)

\* _extract_endpoint: <<>> stands for None, <<endpoint>> for an Endpoint
_extract_endpoint(java_files, cls, method, class_path) ==
    LET method_annotations == _get_annotation_text_from_file(java_files, cls.file_path, method.name, FALSE)
        Full(annotation_name) == Get(method_annotations, annotation_name, annotation_name)
        hit(i) == _extract_http_method_from_annotation(Full(method.annotations[i])) # ""
        found == \E i \in DOMAIN method.annotations : hit(i)
        first == CHOOSE i \in DOMAIN method.annotations : hit(i) /\ \A k \in 1..(i - 1) : ~hit(k)
        http_method == IF found THEN _extract_http_method_from_annotation(Full(method.annotations[first]))
                       ELSE ""
        method_path == IF found THEN _extract_path_from_annotation(Full(method.annotations[first]))
                       ELSE ""
    IN IF http_method # ""
       THEN <<[path |-> CombinePath(class_path, method_path),
               http_method |-> http_method,
               method_signature |-> Signature(cls.name, method.name),
               class_name |-> cls.name,
               method_name |-> method.name,
               file_path |-> cls.file_path]>>
       ELSE <<>>

\* the class-level path: the first annotation whose name has RequestMapping decides
ClassPath(java_files, cls) ==
    LET class_annotations == _get_annotation_text_from_file(java_files, cls.file_path, cls.name, TRUE)
        hit(i) == Contains(cls.annotations[i], "RequestMapping")
    IN IF \E i \in DOMAIN cls.annotations : hit(i)
       THEN LET first == CHOOSE i \in DOMAIN cls.annotations : hit(i) /\ \A k \in 1..(i - 1) : ~hit(k)
            IN _extract_path_from_annotation(
                   Get(class_annotations, cls.annotations[first], cls.annotations[first]))
       ELSE ""

\* _identify_endpoints: the endpoint list, rebuilt from empty
_identify_endpoints(java_files, classes) ==
    LET ClassStep(acc, cls) ==
            FoldLeft(LAMBDA a, method : a \o _extract_endpoint(java_files, cls, method,
                                                              ClassPath(java_files, cls)),
                     acc, cls.methods)
    IN FoldLeft(ClassStep, <<>>, classes)

\* build_call_graph(java_files) run on builder state self: the state it leaves
build_call_graph(self, java_files) ==
    With(ResetState(self), LAMBDA s0 :
    With(ParseFiles(s0, java_files), LAMBDA parsed :
    With(CollectRelations(s0, parsed.all_classes, parsed.class_info_map), LAMBDA collected :
        Self(AddRelations(s0.call_graph, collected.call_relations, collected.method_metadata),
             collected.method_metadata, parsed.class_info_map, parsed.file_to_classes_map,
             _identify_endpoints(java_files, parsed.all_classes)))))

(***************************************************************************)
(* Graph queries                                                           *)
(***************************************************************************)
\* _get_layer: metadata first, then the node attribute of a non-empty graph
_get_layer(self, method_signature) ==
    IF method_signature \in DOMAIN self.method_metadata
    THEN Get(self.method_metadata[method_signature], "layer", "Unknown")
    ELSE IF ~self.call_graph.is_none /\ Len(self.call_graph.nodes) > 0
            /\ HasNode(self.call_graph, method_signature)
    THEN Get(self.call_graph.attrs[method_signature], "layer", "Unknown")
    ELSE "Unknown"

CallChain(self, chain, is_circular) ==
    [chain |-> chain,
     layers |-> [i \in DOMAIN chain |-> _get_layer(self, chain[i])],
     is_circular |-> is_circular]

RECURSIVE dfs(_, _, _, _, _)
\* dfs when the depth test is depth >= max_depth
dfs_stops_one_early(self, max_depth, st, node, depth) ==
    IF depth >= max_depth THEN st
    ELSE IF node \in Range(st.current_path)
    THEN [st EXCEPT !.chains = Append(@, CallChain(self, Append(st.current_path, node), TRUE))]
    ELSE LET path == Append(st.current_path, node)
         IN IF path \in st.visited_paths THEN st
            ELSE LET st1 == [st EXCEPT !.current_path = path, !.visited_paths = @ \cup {path}]
                     g == self.call_graph
                     st2 == IF ~HasNode(g, node) \/ Len(successors(g, node)) = 0
                            THEN [st1 EXCEPT !.chains = Append(@, CallChain(self, path, FALSE))]
                            ELSE FoldLeft(LAMBDA acc, successor :
                                              dfs(self, max_depth, acc, successor, depth + 1),
                                          st1, successors(g, node))
                 IN [st2 EXCEPT !.current_path = st.current_path]

\* dfs with a visited set of nodes in place of the set of visited paths
dfs_visits_nodes_once(self, max_depth, st, node, depth) ==
    IF depth > max_depth THEN st
    ELSE IF node \in Range(st.current_path)
    THEN [st EXCEPT !.chains = Append(@, CallChain(self, Append(st.current_path, node), TRUE))]
    ELSE LET path == Append(st.current_path, node)
         IN IF <<node>> \in st.visited_paths THEN st
            ELSE LET st1 == [st EXCEPT !.current_path = path, !.visited_paths = @ \cup {<<node>>}]
                     g == self.call_graph
                     st2 == IF ~HasNode(g, node) \/ Len(successors(g, node)) = 0
                            THEN [st1 EXCEPT !.chains = Append(@, CallChain(self, path, FALSE))]
                            ELSE FoldLeft(LAMBDA acc, successor :
                                              dfs(self, max_depth, acc, successor, depth + 1),
                                          st1, successors(g, node))
                 IN [st2 EXCEPT !.current_path = st.current_path]

\* dfs without the test of the depth
dfs_without_depth_bound(self, max_depth, st, node, depth) ==
    IF node \in Range(st.current_path)
    THEN [st EXCEPT !.chains = Append(@, CallChain(self, Append(st.current_path, node), TRUE))]
    ELSE LET path == Append(st.current_path, node)
         IN IF path \in st.visited_paths THEN st
            ELSE LET st1 == [st EXCEPT !.current_path = path, !.visited_paths = @ \cup {path}]
                     g == self.call_graph
                     st2 == IF ~HasNode(g, node) \/ Len(successors(g, node)) = 0
                            THEN [st1 EXCEPT !.chains = Append(@, CallChain(self, path, FALSE))]
                            ELSE FoldLeft(LAMBDA acc, successor :
                                              dfs(self, max_depth, acc, successor, depth + 1),
                                          st1, successors(g, node))
                 IN [st2 EXCEPT !.current_path = st.current_path]

\* the nested dfs of build_call_chains; st holds current_path, visited_paths and chains
dfs(self, max_depth, st, node, depth) ==
    IF depth > max_depth THEN st
    ELSE IF node \in Range(st.current_path)
    THEN [st EXCEPT !.chains = Append(@, CallChain(self, Append(st.current_path, node), TRUE))]
    ELSE LET path == Append(st.current_path, node)
         IN IF path \in st.visited_paths THEN st
            ELSE LET st1 == [st EXCEPT !.current_path = path, !.visited_paths = @ \cup {path}]
                     g == self.call_graph
                     st2 == IF ~HasNode(g, node) \/ Len(successors(g, node)) = 0
                            THEN [st1 EXCEPT !.chains = Append(@, CallChain(self, path, FALSE))]
                            ELSE FoldLeft(LAMBDA acc, successor :
                                              dfs(self, max_depth, acc, successor, depth + 1),
                                          st1, successors(g, node))
                 IN [st2 EXCEPT !.current_path = st.current_path]

\* build_call_chains(endpoint, max_depth); endpoint is <<>> for None, <<e>> for an Endpoint
build_call_chains(self, endpoint, max_depth) ==
    IF self.call_graph.is_none THEN <<>>
    ELSE LET start_nodes ==
                 IF endpoint # <<>> THEN <<endpoint[1].method_signature>>
                 ELSE [i \in DOMAIN self.endpoints |-> self.endpoints[i].method_signature]
             Step(chains, start_node) ==
                 IF ~HasNode(self.call_graph, start_node) THEN chains
                 ELSE dfs(self, max_depth,
                          [current_path |-> <<>>, visited_paths |-> {}, chains |-> chains],
                          start_node, 0).chains
         IN FoldLeft(Step, <<>>, start_nodes)

RECURSIVE build_tree_node(_, _, _, _, _)
\* build_tree_node when a successor that is on the path gives no child
build_tree_node_drops_cycles(self, max_depth, visited_in_path, node, depth) ==
    IF depth > max_depth THEN <<>>
    ELSE IF node \in visited_in_path THEN <<>>
    ELSE LET g == self.call_graph
             children == FoldLeft(LAMBDA acc, successor :
                                      acc \o build_tree_node(self, max_depth,
                                                             visited_in_path \cup {node},
                                                             successor, depth + 1),
                                  <<>>, IF HasNode(g, node) THEN successors(g, node) ELSE <<>>)
         IN IF node \in DOMAIN self.method_metadata
            THEN <<[method_signature |-> node, layer |-> _get_layer(self, node),
                    is_circular |-> FALSE, children |-> children,
                    class_name |-> Get(self.method_metadata[node], "class_name", ""),
                    file_path |-> Get(self.method_metadata[node], "file_path", "")]>>
            ELSE <<[method_signature |-> node, layer |-> _get_layer(self, node),
                    is_circular |-> FALSE, children |-> children]>>

\* the nested build_tree_node of get_call_tree: <<>> for None, <<node_info>> otherwise
build_tree_node(self, max_depth, visited_in_path, node, depth) ==
    IF depth > max_depth THEN <<>>
    ELSE IF node \in visited_in_path
    THEN <<[method_signature |-> node, layer |-> _get_layer(self, node),
            is_circular |-> TRUE, children |-> <<>>]>>
    ELSE LET g == self.call_graph
             children == FoldLeft(LAMBDA acc, successor :
                                      acc \o build_tree_node(self, max_depth,
                                                             visited_in_path \cup {node},
                                                             successor, depth + 1),
                                  <<>>, IF HasNode(g, node) THEN successors(g, node) ELSE <<>>)
         IN IF node \in DOMAIN self.method_metadata
            THEN <<[method_signature |-> node, layer |-> _get_layer(self, node),
                    is_circular |-> FALSE, children |-> children,
                    class_name |-> Get(self.method_metadata[node], "class_name", ""),
                    file_path |-> Get(self.method_metadata[node], "file_path", "")]>>
            ELSE <<[method_signature |-> node, layer |-> _get_layer(self, node),
                    is_circular |-> FALSE, children |-> children]>>

\* tree["endpoint"] = {...}
WithEndpoint(tree, endpoint) ==
    IF "class_name" \in DOMAIN tree
    THEN [method_signature |-> tree.method_signature, layer |-> tree.layer,
          is_circular |-> tree.is_circular, children |-> tree.children,
          class_name |-> tree.class_name, file_path |-> tree.file_path,
          endpoint |-> endpoint]
    ELSE [method_signature |-> tree.method_signature, layer |-> tree.layer,
          is_circular |-> tree.is_circular, children |-> tree.children,
          endpoint |-> endpoint]

\* get_call_tree when a missing graph is answered with an error entry
get_call_tree_reports_error(self, endpoint, max_depth) ==
    IF self.call_graph.is_none THEN [error |-> "call graph not built"]
    ELSE IF ~HasNode(self.call_graph, endpoint.method_signature) THEN EmptyDict
    ELSE LET tree == build_tree_node(self, max_depth, {}, endpoint.method_signature, 0)
         IN IF tree = <<>> THEN EmptyDict ELSE WithEndpoint(tree[1], endpoint)

\* get_call_tree(endpoint, max_depth): the empty dict when there is no graph, node or tree
get_call_tree(self, endpoint, max_depth) ==
    IF self.call_graph.is_none THEN EmptyDict
    ELSE IF ~HasNode(self.call_graph, endpoint.method_signature) THEN EmptyDict
    ELSE LET tree == build_tree_node(self, max_depth, {}, endpoint.method_signature, 0)
         IN IF tree = <<>> THEN EmptyDict ELSE WithEndpoint(tree[1], endpoint)

RECURSIVE ReachSet(_, _)
\* the nodes reachable from the set S, S included
ReachSet(g, S) ==
    LET T == S \cup UNION {Range(g.succ[n]) : n \in S}
    IN IF T = S THEN S ELSE ReachSet(g, T)

\* nx.strongly_connected_components: the components, by first node in node order
\* (the test in the body makes TLC compute reach and position once)
strongly_connected_components(g) ==
    LET reach == [n \in Range(g.nodes) |-> ReachSet(g, {n})]
        position == [n \in Range(g.nodes) |-> CHOOSE i \in DOMAIN g.nodes : g.nodes[i] = n]
        comp(n) == {m \in reach[n] : n \in reach[m]}
        firsts == SelectSeq(g.nodes, LAMBDA n : \A m \in comp(n) : position[n] <= position[m])
    IN IF reach = reach /\ position = position
       THEN [i \in DOMAIN firsts |-> comp(firsts[i])]
       ELSE <<>>

RECURSIVE EdgeWalk(_, _, _, _)
\* edge_dfs inside a component, where every node has a successor: the walk takes
\* the successor next[tail] that the subgraph view lists first, until the head of
\* an edge is already on the walk; the cycle starts where that head is the tail
EdgeWalk(g, next, edges, tail) ==
    LET head == next[tail]
        walk == Append(edges, <<tail, head>>)
    IN IF \E i \in DOMAIN walk : walk[i][1] = head
       THEN LET k == CHOOSE i \in DOMAIN walk : walk[i][1] = head
            IN SubSeq(walk, k, Len(walk))
       ELSE EdgeWalk(g, next, walk, head)

\* nx.find_cycle(subgraph, source): the edges of the first cycle met
find_cycle(g, next, source) == EdgeWalk(g, next, <<>>, source)

\* the path reported for one cycle: the tail of every edge, then the head of the first edge
CyclePath(cycle) == [i \in DOMAIN cycle |-> cycle[i][1]] \o <<cycle[1][2]>>

\* CyclicComponents when there is no size test
CyclicComponents_counts_singletons(sccs) == DOMAIN sccs

\* CyclicComponents when the size test is len(scc) > 2
CyclicComponents_over_two(sccs) == {i \in DOMAIN sccs : Cardinality(sccs[i]) > 2}

\* the components of more than one node: len(scc) > 1
CyclicComponents(sccs) == {i \in DOMAIN sccs : Cardinality(sccs[i]) > 1}

\* What the iteration orders leave open: source[i] is the node "for node in scc"
\* visits first in component i, next[n] the successor of n that the subgraph view
\* lists first (a set and a filtered view have no fixed order).
IterationOrders(g) ==
    LET sccs == strongly_connected_components(g)
        cyclic == UNION {sccs[i] : i \in CyclicComponents(sccs)}
    IN {o \in [source : [CyclicComponents(sccs) -> cyclic], next : [cyclic -> cyclic]] :
           /\ \A i \in CyclicComponents(sccs) : o.source[i] \in sccs[i]
           /\ \A i \in CyclicComponents(sccs) : \A n \in sccs[i] :
                  o.next[n] \in Range(g.succ[n]) \cap sccs[i]}

\* detect_circular_references under the iteration order o
detect_circular_references(self, o) ==
    IF self.call_graph.is_none THEN <<>>
    ELSE LET g == self.call_graph
             sccs == strongly_connected_components(g)
             Step(cycles, i) ==
                 IF i \in CyclicComponents(sccs)
                 THEN Append(cycles, CyclePath(find_cycle(g, o.next, o.source[i])))
                 ELSE cycles
         IN FoldLeft(Step, <<>>, [i \in DOMAIN sccs |-> i])

\* graph.edges(): by node, then by successor
EdgeList(g) ==
    FoldLeft(LAMBDA acc, u : acc \o [i \in DOMAIN g.succ[u] |-> <<u, g.succ[u][i]>>],
             <<>>, g.nodes)

\* get_call_relations
get_call_relations(self) ==
    IF self.call_graph.is_none THEN <<>>
    ELSE LET edges == EdgeList(self.call_graph)
             File(n) == Get(Get(self.method_metadata, n, EmptyDict), "file_path", "")
         IN [i \in DOMAIN edges |->
                [caller |-> edges[i][1], callee |-> edges[i][2],
                 caller_file |-> File(edges[i][1]), callee_file |-> File(edges[i][2])]]

(***************************************************************************)
(* Source files the builder is run on                                      *)
(***************************************************************************)
Decl(name, type) == [name |-> name, type |-> type]

Method(name, annotations, parameters, local_variables, method_calls) ==
    [name |-> name, annotations |-> annotations, parameters |-> parameters,
     local_variables |-> local_variables, method_calls |-> method_calls]

ClassInfo(name, package, annotations, interfaces, fields, methods, file_path) ==
    [name |-> name, package |-> package, annotations |-> annotations,
     interfaces |-> interfaces, fields |-> fields, methods |-> methods,
     file_path |-> file_path]

SourceFile(path, classes, annotation_text) ==
    [path |-> path, error |-> "", classes |-> classes, annotation_text |-> annotation_text]

\* the same file when parse_file returns an error for it
Unreadable(f) == [f EXCEPT !.error = "no supported encoding"]

OrderControllerFile ==
    SourceFile("web/OrderController.java",
        <<ClassInfo("OrderController", "com.shop.web", <<"RestController", "RequestMapping">>, <<>>,
            <<Decl("orderService", "OrderService")>>,
            <<Method("getOrder", <<"GetMapping">>, <<Decl("id", "Long")>>, <<>>,
                     <<"orderService.find">>),
              Method("ping", <<"GetMapping">>, <<>>, <<>>, <<"orderService.reload">>),
              Method("health", <<"GetMapping">>, <<>>, <<>>, <<>>)>>,
            "web/OrderController.java")>>,
        (<<"OrderController", TRUE>> :> ("RestController" :> "@RestController"
                                         @@ "RequestMapping" :> "@RequestMapping(\"/api/\")"))
        @@ (<<"getOrder", FALSE>> :> ("GetMapping" :> "@GetMapping(\"/orders\")"))
        @@ (<<"ping", FALSE>> :> ("GetMapping" :> "@GetMapping"))
        @@ (<<"health", FALSE>> :> ("GetMapping" :> "@GetMapping(\"/health\")")))

OrderServiceFile ==
    SourceFile("service/OrderService.java",
        <<ClassInfo("OrderService", "com.shop.service", <<"Service">>, <<>>,
            <<Decl("orderMapper", "OrderMapper"), Decl("cache", "Map<String, Order>")>>,
            <<Method("find", <<>>, <<Decl("id", "Long")>>, <<Decl("audit", "AuditLog")>>,
                     <<"orderMapper.selectById", "validate", "audit.record", "Objects.requireNonNull">>),
              Method("validate", <<>>, <<Decl("cache", "LocalCache")>>, <<>>,
                     <<"find", "cache.get">>)>>,
            "service/OrderService.java")>>,
        <<"OrderService", TRUE>> :> ("Service" :> "@Service"))

OrderMapperFile ==
    SourceFile("mapper/OrderMapper.java",
        <<ClassInfo("OrderMapper", "com.shop.mapper", <<"Mapper">>, <<>>, <<>>,
            <<Method("selectById", <<>>, <<Decl("id", "Long")>>, <<>>, <<>>)>>,
            "mapper/OrderMapper.java")>>,
        <<"OrderMapper", TRUE>> :> ("Mapper" :> "@Mapper"))

\* a second class with the simple name OrderService
LegacyServiceFile ==
    SourceFile("legacy/OrderService.java",
        <<ClassInfo("OrderService", "com.shop.legacy", <<>>, <<>>,
            <<Decl("orderMapper", "LegacyDao")>>,
            <<Method("find", <<"PostMapping">>, <<>>, <<>>, <<"orderMapper.load">>)>>,
            "legacy/OrderService.java")>>,
        <<"find", FALSE>> :> ("PostMapping" :> "@PostMapping(value = \"legacy\")"))

SourceFiles == {OrderControllerFile, OrderServiceFile, OrderMapperFile, LegacyServiceFile}

FileVariants == SourceFiles \cup {Unreadable(f) : f \in SourceFiles}

MaxFiles == 3

\* the java_files arguments: lists of files with distinct paths
FileLists ==
    {q \in UNION {[1..k -> FileVariants] : k \in 0..MaxFiles} :
        \A i, j \in DOMAIN q : i # j => q[i].path # q[j].path}

RebuildLists == {q \in FileLists : Len(q) <= 1}

(***************************************************************************)
(* Source files that give a chosen call graph: classes A, B, C with one    *)
(* method each that call one another by qualified name, and a class L      *)
(* whose methods m1..mk call one another in a row and then A.a.            *)
(***************************************************************************)
CoreClasses == <<"A", "B", "C">>

CoreMethod(c) == Lower(c)

CorePackage(c) == IF c = "A" THEN "com.web" ELSE IF c = "B" THEN "com.service" ELSE "com.mapper"

CoreSignature(c) == Signature(c, CoreMethod(c))

CoreEdges == <<<<"A", "A">>, <<"A", "B">>, <<"A", "C">>,
               <<"B", "A">>, <<"B", "B">>, <<"B", "C">>,
               <<"C", "A">>, <<"C", "B">>, <<"C", "C">>>>

MaxEdges == 4

LeadMethods == <<"m1", "m2", "m3", "m4", "m5", "m6", "m7", "m8", "m9">>

LeadLengths == {0, 8, 9}

RECURSIVE Ascending(_)
Ascending(S) ==
    IF S = {} THEN <<>>
    ELSE LET m == CHOOSE x \in S : \A y \in S : x <= y IN <<m>> \o Ascending(S \ {m})

Reverse(q) == [i \in DOMAIN q |-> q[Len(q) + 1 - i]]

\* a graph shape: the core edges in the order their call sites appear, and the lead length
GraphShapes ==
    {[edges |-> IF r THEN Reverse(Ascending(S)) ELSE Ascending(S), lead |-> k] :
        S \in {T \in SUBSET DOMAIN CoreEdges : Cardinality(T) <= MaxEdges},
        r \in BOOLEAN, k \in LeadLengths}

CoreFile(shape, c) ==
    LET mine == SelectSeq(shape.edges, LAMBDA e : CoreEdges[e][1] = c)
        calls == [i \in DOMAIN mine |-> CoreSignature(CoreEdges[mine[i]][2])]
        path == c \o ".java"
    IN SourceFile(path,
           <<ClassInfo(c, CorePackage(c), <<>>, <<>>, <<>>,
                       <<Method(CoreMethod(c), IF c = "A" THEN <<"GetMapping">> ELSE <<>>,
                                <<>>, <<>>, calls)>>, path)>>,
           EmptyDict)

LeadFile(shape) ==
    SourceFile("L.java",
        <<ClassInfo("L", "", <<>>, <<>>, <<>>,
            [i \in 1..shape.lead |->
                Method(LeadMethods[i], IF i = 1 THEN <<"GetMapping">> ELSE <<>>, <<>>, <<>>,
                       <<IF i < shape.lead THEN LeadMethods[i + 1] ELSE CoreSignature("A")>>)],
            "L.java")>>,
        EmptyDict)

\* the files of a shape: L when there is a lead, and every core class that makes a call
GraphFiles(shape) ==
    (IF shape.lead > 0 THEN <<LeadFile(shape)>> ELSE <<>>)
    \o FoldLeft(LAMBDA acc, c : IF \E i \in DOMAIN shape.edges : CoreEdges[shape.edges[i]][1] = c
                                THEN Append(acc, CoreFile(shape, c)) ELSE acc,
                <<>>, CoreClasses)

GraphFileLists == {GraphFiles(shape) : shape \in GraphShapes}

(***************************************************************************)
(* Arguments of the queries                                                *)
(***************************************************************************)
DefaultMaxDepth == 10

\* an Endpoint object for a method signature
EndpointOf(method_signature) ==
    [path |-> "", http_method |-> "GET", method_signature |-> method_signature,
     class_name |-> Split(method_signature, ".")[1],
     method_name |-> Last(Split(method_signature, ".")), file_path |-> ""]

StartSignatures ==
    {"OrderController.getOrder", "OrderController.ping", "OrderController.health",
     "OrderService.find",
     "OrderMapper.selectById", "Missing.none"}

GraphStartSignatures == {"L.m1", "A.a", "B.b", "C.c", "Missing.none"}

(***************************************************************************)
(* The builder as a state machine                                          *)
(***************************************************************************)
MaxBuilds == 2

Current == Self(call_graph, method_metadata, class_info_map, file_to_classes_map, endpoints)

Store(self) ==
    /\ call_graph' = self.call_graph
    /\ method_metadata' = self.method_metadata
    /\ class_info_map' = self.class_info_map
    /\ file_to_classes_map' = self.file_to_classes_map
    /\ endpoints' = self.endpoints

\* the workers of the pool that parses the files
Workers == {1, 2}

ParsePaths == {"A.java", "B.java"}

\* the frame of a worker that is not inside parse_file, with what its last
\* call returned
Idle(result) == [pc |-> "idle", file_path |-> "", tree |-> <<>>, result |-> result]

pool == <<workers, parses>>

\* the builder as __init__ leaves it, next to an empty cache and idle workers
Constructed ==
    /\ call_graph = NewBuilder.call_graph
    /\ method_metadata = NewBuilder.method_metadata
    /\ class_info_map = NewBuilder.class_info_map
    /\ file_to_classes_map = NewBuilder.file_to_classes_map
    /\ endpoints = NewBuilder.endpoints
    /\ cache = EmptyDict
    /\ workers = [w \in Workers |-> Idle(<<>>)]
    /\ parses = [p \in ParsePaths |-> [parsed |-> 0, stored |-> 0]]

Init ==
    /\ Constructed
    /\ builds = 0
    /\ op = "__init__"
    /\ arg = <<>>
    /\ ret = <<>>

Call_build_call_graph(java_files) ==
    /\ builds < MaxBuilds
    /\ Store(build_call_graph(Current, java_files))
    /\ builds' = builds + 1
    /\ op' = "build_call_graph"
    /\ arg' = [java_files |-> java_files]
    /\ ret' = <<>>
    /\ UNCHANGED <<cache, pool>>

Call_build_call_chains(endpoint, max_depth) ==
    /\ op' = "build_call_chains"
    /\ arg' = [endpoint |-> endpoint, max_depth |-> max_depth]
    /\ ret' = build_call_chains(Current, endpoint, max_depth)
    /\ UNCHANGED <<builder, cache, pool, builds>>

Call_get_call_tree(endpoint, max_depth) ==
    /\ op' = "get_call_tree"
    /\ arg' = [endpoint |-> endpoint, max_depth |-> max_depth]
    /\ ret' = get_call_tree(Current, endpoint, max_depth)
    /\ UNCHANGED <<builder, cache, pool, builds>>

Call_detect_circular_references ==
    /\ \E o \in IterationOrders(call_graph) :
          ret' = detect_circular_references(Current, o)
    /\ op' = "detect_circular_references"
    /\ arg' = <<>>
    /\ UNCHANGED <<builder, cache, pool, builds>>

Call_get_call_relations ==
    /\ op' = "get_call_relations"
    /\ arg' = <<>>
    /\ ret' = get_call_relations(Current)
    /\ UNCHANGED <<builder, cache, pool, builds>>

\* a first build on any list of files, later builds on at most one file
Next ==
    \/ builds = 0 /\ \E java_files \in FileLists : Call_build_call_graph(java_files)
    \/ builds > 0 /\ \E java_files \in RebuildLists : Call_build_call_graph(java_files)
    \/ \E s \in StartSignatures : Call_build_call_chains(<<EndpointOf(s)>>, DefaultMaxDepth)
    \/ Call_build_call_chains(<<>>, DefaultMaxDepth)
    \/ \E s \in StartSignatures : Call_get_call_tree(EndpointOf(s), DefaultMaxDepth)
    \/ Call_detect_circular_references
    \/ Call_get_call_relations

Spec == Init /\ [][Next]_vars

\* one build on the files of a graph shape, then queries
NextGraph ==
    \/ builds = 0 /\ \E java_files \in GraphFileLists : Call_build_call_graph(java_files)
    \/ \E s \in GraphStartSignatures : Call_build_call_chains(<<EndpointOf(s)>>, DefaultMaxDepth)
    \/ \E s \in GraphStartSignatures : Call_get_call_tree(EndpointOf(s), DefaultMaxDepth)
    \/ Call_detect_circular_references

SpecGraph == Init /\ [][NextGraph]_vars

(***************************************************************************)
(* Properties of the graph queries (checked under SpecGraph)               *)
(***************************************************************************)
\* the graph holds the cycle a -> b -> a
TwoCycle(g, a, b) ==
    /\ a # b
    /\ HasNode(g, a) /\ HasNode(g, b)
    /\ b \in Range(g.succ[a]) /\ a \in Range(g.succ[b])

RECURSIVE ReachWithin(_, _, _)
\* the nodes that a path of at most k edges reaches from the set S
ReachWithin(g, S, k) ==
    IF k <= 0 THEN (IF k = 0 THEN S ELSE {})
    ELSE ReachWithin(g, S \cup UNION {Range(g.succ[n]) : n \in S}, k - 1)

\* the strongly connected component of node a
ComponentOf(g, a) == {m \in ReachSet(g, {a}) : a \in ReachSet(g, {m})}

HasCircularChain(chains) == \E i \in DOMAIN chains : chains[i].is_circular

\* build_call_chains has just answered for one start endpoint of the graph, at the default depth
ChainsFromStart ==
    /\ op = "build_call_chains"
    /\ ~call_graph.is_none
    /\ arg.endpoint # <<>>
    /\ arg.max_depth = DefaultMaxDepth
    /\ HasNode(call_graph, arg.endpoint[1].method_signature)

\* C1 as stated: whenever the graph holds a cycle A -> B -> A and A is reachable
\* from the start endpoint, build_call_chains at the default max_depth returns
\* a result with at least one chain marked is_circular.
C1_CircularChainFromAnyReachingStart ==
    ChainsFromStart =>
        \A a, b \in Range(call_graph.nodes) :
            (/\ TwoCycle(call_graph, a, b)
             /\ a \in ReachSet(call_graph, {arg.endpoint[1].method_signature}))
            => HasCircularChain(ret)

\* C1 as amended: whenever the graph holds a cycle A -> B -> A and a path of at
\* most max_depth - 2 edges leads from the start endpoint to A, build_call_chains
\* returns a result with at least one chain marked is_circular.
C1_CircularChainWithinDepth ==
    ChainsFromStart =>
        \A a, b \in Range(call_graph.nodes) :
            (/\ TwoCycle(call_graph, a, b)
             /\ a \in ReachWithin(call_graph, {arg.endpoint[1].method_signature},
                                  arg.max_depth - 2))
            => HasCircularChain(ret)

\* C1 witness: a cycle whose first node lies exactly max_depth - 2 edges from
\* the start, and a circular chain in the result
C1_CycleAtDepthEight ==
    /\ ChainsFromStart
    /\ HasCircularChain(ret)
    /\ \E a, b \in Range(call_graph.nodes) :
          /\ TwoCycle(call_graph, a, b)
          /\ a \in ReachWithin(call_graph, {arg.endpoint[1].method_signature}, DefaultMaxDepth - 2)
          /\ a \notin ReachWithin(call_graph, {arg.endpoint[1].method_signature}, DefaultMaxDepth - 3)
          /\ b \notin ReachWithin(call_graph, {arg.endpoint[1].method_signature}, DefaultMaxDepth - 2)

\* detect_circular_references has just answered on a built graph
CyclesDetected == op = "detect_circular_references" /\ ~call_graph.is_none

\* C2 as stated: whenever the graph holds a cycle A -> B -> A,
\* detect_circular_references returns a cycle path that contains both A and B.
C2_CyclePathHoldsBoth ==
    CyclesDetected =>
        \A a, b \in Range(call_graph.nodes) :
            TwoCycle(call_graph, a, b)
            => \E i \in DOMAIN ret : a \in Range(ret[i]) /\ b \in Range(ret[i])

\* C2 as amended: whenever the graph holds a cycle A -> B -> A,
\* detect_circular_references returns a cycle path whose nodes all lie in the
\* strongly connected component of A and B, and that path contains both A and B
\* when the component has no other node and neither A nor B calls itself.
C2_CyclePathInsideComponent ==
    CyclesDetected =>
        \A a, b \in Range(call_graph.nodes) :
            TwoCycle(call_graph, a, b)
            => \E i \in DOMAIN ret :
                  /\ Range(ret[i]) \subseteq ComponentOf(call_graph, a)
                  /\ (/\ ComponentOf(call_graph, a) = {a, b}
                      /\ a \notin Range(call_graph.succ[a])
                      /\ b \notin Range(call_graph.succ[b]))
                     => {a, b} \subseteq Range(ret[i])

\* C2 witness: a cycle A -> B -> A inside a component of three nodes, and a
\* reported path that lies in the component and leaves A out
C2_CycleLeftOutOfPath ==
    /\ CyclesDetected
    /\ \E a, b \in Range(call_graph.nodes) :
          /\ TwoCycle(call_graph, a, b)
          /\ Cardinality(ComponentOf(call_graph, a)) = 3
          /\ \E i \in DOMAIN ret : /\ Range(ret[i]) \subseteq ComponentOf(call_graph, a)
                                   /\ a \notin Range(ret[i])

(***************************************************************************)
(* Properties of build_call_graph (checked under Spec)                     *)
(***************************************************************************)
\* C3: after build_call_graph(F) the graph (nodes, edges, node layers), the
\* method metadata, the class index and the endpoint list are those a new
\* builder gets from F, whatever builds ran on the builder before.
C3_BuildDependsOnlyOnFiles ==
    op = "build_call_graph" => Current = build_call_graph(NewBuilder, arg.java_files)

\* C3 witness: a second build on a builder whose first build left a graph, ending with a graph
C3_RebuiltAfterEarlierBuild ==
    /\ op = "build_call_graph"
    /\ builds = 2
    /\ Len(arg.java_files) = 1
    /\ Len(call_graph.nodes) > 0
    /\ Len(endpoints) > 0

QueryOps == {"build_call_chains", "get_call_tree", "detect_circular_references",
             "get_call_relations"}

\* C4: on a builder on which build_call_graph never ran, every query returns
\* its empty result (the empty list, the empty mapping for get_call_tree) and
\* the builder is still as __init__ left it.
C4_QueriesBeforeBuildAreEmpty ==
    (builds = 0 /\ op \in QueryOps) =>
        /\ ret = (IF op = "get_call_tree" THEN EmptyDict ELSE <<>>)
        /\ DOMAIN ret = {}
        /\ Current = NewBuilder

\* C4 witness: get_call_tree has answered for an endpoint before any build
C4_TreeQueriedBeforeBuild ==
    /\ builds = 0
    /\ op = "get_call_tree"
    /\ arg.endpoint.method_signature = "OrderController.getOrder"

\* the (class, method) pairs that the readable files declare under a signature
Declared(java_files, signature) ==
    {d \in UNION {Range(java_files[i].classes) \X
                      UNION {Range(cls.methods) : cls \in Range(java_files[i].classes)} :
                  i \in {k \in DOMAIN java_files : java_files[k].error = ""}} :
        /\ d[2] \in Range(d[1].methods)
        /\ Signature(d[1].name, d[2].name) = signature}

\* C5: after build_call_graph every node of the graph carries class_name,
\* file_path and layer: those of a declaration of its signature in a parsed
\* class when there is one, otherwise layer Unknown with empty class name and
\* file path.
C5_NodesCarryMetadata ==
    op = "build_call_graph" =>
        \A n \in Range(call_graph.nodes) :
            /\ DOMAIN call_graph.attrs[n] = {"class_name", "file_path", "layer"}
            /\ IF Declared(arg.java_files, n) # {}
               THEN \E d \in Declared(arg.java_files, n) :
                       call_graph.attrs[n] = [class_name |-> d[1].name,
                                              file_path |-> d[1].file_path,
                                              layer |-> _classify_layer(d[1], d[2])]
               ELSE call_graph.attrs[n] = [class_name |-> "", file_path |-> "",
                                           layer |-> "Unknown"]

\* C5 witness: a built graph with a declared node of layer Service and a node no class declares
C5_DeclaredAndUndeclaredNodes ==
    /\ op = "build_call_graph"
    /\ \E n, m \in Range(call_graph.nodes) :
          /\ Declared(arg.java_files, n) # {}
          /\ call_graph.attrs[n].layer = "Service"
          /\ Declared(arg.java_files, m) = {}
          /\ call_graph.attrs[m].layer = "Unknown"

\* the files of a list whose parse gave no error
ReadableFiles(java_files) == SelectSeq(java_files, LAMBDA f : f.error = "")

\* the callee signatures Type.method of the calls, in readable files, through a
\* field whose type (as the builder's field map has it) is a class that only
\* files with a parse error declare
FailedTypeCallees(java_files) ==
    LET readable == ReadableFiles(java_files)
        parsed == UNION {Range(readable[i].classes) : i \in DOMAIN readable}
        failed_only == {cls.name : cls \in UNION {Range(java_files[i].classes) :
                                       i \in {k \in DOMAIN java_files : java_files[k].error # ""}}}
                       \ {cls.name : cls \in parsed}
        field_map == ClassFieldMap(ParseFiles(NewBuilder, readable).all_classes)
    IN UNION {UNION {UNION {
            LET object_name == Split(call, ".")[1]
            IN IF /\ Contains(call, ".")
                  /\ object_name \in DOMAIN field_map[cls.name]
                  /\ field_map[cls.name][object_name] \in failed_only
               THEN {Signature(field_map[cls.name][object_name], Last(Split(call, ".")))}
               ELSE {} :
            call \in Range(method.method_calls)} : method \in Range(cls.methods)} : cls \in parsed}

\* C6: build_call_graph on a list with files that fail to parse leaves what it
\* leaves on the list without those files, and a call through a field typed
\* by a class that only a failed file declares still gives the node
\* Type.method, with layer Unknown and empty file path.
C6_FailedFileSkipped ==
    op = "build_call_graph" =>
        /\ Current = build_call_graph(NewBuilder, ReadableFiles(arg.java_files))
        /\ \A n \in FailedTypeCallees(arg.java_files) :
              /\ HasNode(call_graph, n)
              /\ call_graph.attrs[n].layer = "Unknown"
              /\ call_graph.attrs[n].file_path = ""

\* C6 witness: a build on a list with a failed file, in which a readable class
\* calls through a field typed by a class of the failed file
C6_CallIntoFailedFile ==
    /\ op = "build_call_graph"
    /\ \E i \in DOMAIN arg.java_files : arg.java_files[i].error # ""
    /\ "OrderService.find" \in FailedTypeCallees(arg.java_files)
    /\ HasNode(call_graph, "OrderService.find")

(***************************************************************************)
(* _classify_layer on classes drawn from a set of names, annotations,      *)
(* interfaces, packages and fields (SpecLayer)                             *)
(***************************************************************************)
LayerClassNames == {"Helper", "UserRepository", "OrderModel", "UserController"}

LayerClassAnnotations == {<<>>, <<"Service">>, <<"Table">>, <<"Component">>}

LayerMethodAnnotations == {<<>>, <<"Transactional">>, <<"Mapper">>}

LayerInterfaces == {<<>>, <<"BaseMapper">>, <<"Serializable", "CrudRepository">>}

LayerPackages == {"", "com.shop.util", "com.shop.dao", "com.shop.web"}

LayerFields == {<<>>, <<Decl("name", "String")>>, <<Decl("em", "EntityManager")>>,
                <<Decl("jdbc", "JdbcTemplate"), Decl("em", "EntityManager")>>}

LayerInputs ==
    {[cls |-> ClassInfo(name, package, annotations, interfaces, fields, <<>>, "X.java"),
      method |-> Method("run", method_annotations, <<>>, <<>>, <<>>)] :
        name \in LayerClassNames, package \in LayerPackages,
        annotations \in LayerClassAnnotations, interfaces \in LayerInterfaces,
        fields \in LayerFields, method_annotations \in LayerMethodAnnotations}

InitLayer ==
    /\ Constructed
    /\ builds = 0
    /\ op = "input"
    /\ arg \in LayerInputs
    /\ ret = <<>>

Call_classify_layer ==
    /\ op = "input"
    /\ op' = "_classify_layer"
    /\ ret' = _classify_layer(arg.cls, arg.method)
    /\ UNCHANGED <<builder, cache, pool, builds, arg>>

NextLayer == Call_classify_layer

SpecLayer == InitLayer /\ [][NextLayer]_vars

Layers == {"Controller", "Service", "Mapper", "Repository", "DAO", "Entity", "Unknown"}

\* some string of strs, lowercased, contains one of the words
SomeContains(strs, words) == \E x \in strs, w \in words : Contains(Lower(x), w)

AnnotationRuleMatches(cls, method) ==
    SomeContains(Range(cls.annotations) \cup Range(method.annotations),
                 {"controller", "restcontroller", "service", "mapper", "repository",
                  "entity", "table"})

ClassNameRuleMatches(cls) ==
    \E i \in DOMAIN LAYER_PATTERNS :
        \E pattern \in Range(LAYER_PATTERNS[i].patterns) : Contains(cls.name, pattern)

InterfaceRuleMatches(cls) ==
    SomeContains(Range(cls.interfaces),
                 {"mapper", "sqlmapper", "repository", "jparepository", "crudrepository",
                  "pagerepository"})

PackageRuleMatches(cls) ==
    SomeContains({cls.package},
                 {"controller", "web", "api", "service", "business", "mapper", "mybatis",
                  "repository", "jpa", "dao", "data", "entity", "domain", "model", "beans"})

FieldRuleWords == {"entitymanager", "entitymanagerfactory", "sqlsession", "sqlsessiontemplate",
                   "jdbctemplate", "datasource"}

FieldRuleMatches(cls) == SomeContains({fld.type : fld \in Range(cls.fields)}, FieldRuleWords)

\* no signal but fields, and every field that matches a field rule is an EntityManager
OnlyEntityManagerSignal(cls, method) ==
    /\ ~AnnotationRuleMatches(cls, method)
    /\ ~ClassNameRuleMatches(cls)
    /\ ~InterfaceRuleMatches(cls)
    /\ ~PackageRuleMatches(cls)
    /\ \E fld \in Range(cls.fields) : fld.type = "EntityManager"
    /\ \A fld \in Range(cls.fields) :
          SomeContains({fld.type}, FieldRuleWords) => fld.type = "EntityManager"

\* C7: _classify_layer returns one of the seven layers for every class and
\* method, Unknown exactly when no annotation, class-name, interface, package
\* or field-type rule matches; annotations [Service] without a name-pattern
\* match give Service, the name UserRepository without annotations gives
\* Repository, an EntityManager field as the only signal gives Repository.
C7_ClassifyLayerTotal ==
    op = "_classify_layer" =>
        LET cls == arg.cls
            method == arg.method
        IN /\ ret \in Layers
           /\ ret = "Unknown" <=> ~(\/ AnnotationRuleMatches(cls, method)
                                    \/ ClassNameRuleMatches(cls)
                                    \/ InterfaceRuleMatches(cls)
                                    \/ PackageRuleMatches(cls)
                                    \/ FieldRuleMatches(cls))
           /\ (cls.annotations \o method.annotations = <<"Service">>
               /\ ~ClassNameRuleMatches(cls)) => ret = "Service"
           /\ (cls.name = "UserRepository"
               /\ cls.annotations \o method.annotations = <<>>) => ret = "Repository"
           /\ OnlyEntityManagerSignal(cls, method) => ret = "Repository"

\* C7 witness: a class whose only signal is an EntityManager field, classified Repository
C7_EntityManagerOnly ==
    /\ op = "_classify_layer"
    /\ OnlyEntityManagerSignal(arg.cls, arg.method)
    /\ ret = "Repository"

(***************************************************************************)
(* Endpoint paths of one controller class whose class-level and            *)
(* method-level annotations carry chosen paths (SpecPath)                  *)
(***************************************************************************)
ClassPaths == {"", "/api", "/api/", "api", "/", "/api//"}

MethodPaths == {"", "/users", "users", "/", "//x", "users/"}

\* method annotations: three with an HTTP method, one without
MethodAnnotations == {"GetMapping", "PostMapping", "RequestMapping", "Deprecated"}

\* the source text of the method annotation
MethodAnnotationText(annotation, method_path) ==
    IF annotation = "RequestMapping"
    THEN IF method_path = "" THEN "@RequestMapping(method = RequestMethod.PUT)"
         ELSE "@RequestMapping(value = \"" \o method_path \o "\", method = RequestMethod.PUT)"
    ELSE IF method_path = "" THEN "@" \o annotation
    ELSE "@" \o annotation \o "(\"" \o method_path \o "\")"

\* the source text of the class annotation
ClassAnnotationText(class_path) ==
    IF class_path = "" THEN "@RequestMapping" ELSE "@RequestMapping(\"" \o class_path \o "\")"

PathFile(class_path, annotation, method_path) ==
    SourceFile("web/PathController.java",
        <<ClassInfo("PathController", "com.shop.web", <<"RestController", "RequestMapping">>,
                    <<>>, <<>>,
                    <<Method("handle", <<annotation>>, <<>>, <<>>, <<>>)>>,
                    "web/PathController.java")>>,
        (<<"PathController", TRUE>> :> ("RequestMapping" :> ClassAnnotationText(class_path)))
        @@ (<<"handle", FALSE>> :> (annotation :> MethodAnnotationText(annotation, method_path))))

InitPath ==
    /\ Constructed
    /\ builds = 0
    /\ op = "input"
    /\ arg \in [class_path : ClassPaths, annotation : MethodAnnotations,
                method_path : MethodPaths]
    /\ ret = <<>>

Call_identify_endpoints ==
    /\ op = "input"
    /\ op' = "_identify_endpoints"
    /\ LET java_files == <<PathFile(arg.class_path, arg.annotation, arg.method_path)>>
       IN ret' = _identify_endpoints(java_files, java_files[1].classes)
    /\ UNCHANGED <<builder, cache, pool, builds, arg>>

NextPath == Call_identify_endpoints

SpecPath == InitPath /\ [][NextPath]_vars

\* c without one trailing slash
DropTrailingSlash(c) == IF EndsWith(c, "/") THEN SubSeq(c, 1, Len(c) - 1) ELSE c

\* m without one leading slash
DropLeadingSlash(m) == IF StartsWith(m, "/") THEN SubSeq(m, 2, Len(m)) ELSE m

\* C8: for a method with an HTTP verb, a non-empty class path c and a
\* non-empty method path m give the endpoint path c, one slash, m, where a
\* trailing slash of c and a leading slash of m are the slash at the junction;
\* an empty class path gives m and an empty method path gives c.
C8_PathJoinedWithOneSlash ==
    (op = "_identify_endpoints" /\ arg.annotation # "Deprecated") =>
        /\ Len(ret) = 1
        /\ ret[1].path =
              IF arg.class_path # "" /\ arg.method_path # ""
              THEN DropTrailingSlash(arg.class_path) \o "/" \o DropLeadingSlash(arg.method_path)
              ELSE IF arg.class_path = "" THEN arg.method_path
              ELSE arg.class_path

\* C8 witness: class path /api/ and method path /users give /api/users
C8_SlashNotDoubled ==
    /\ op = "_identify_endpoints"
    /\ arg.class_path = "/api/"
    /\ arg.method_path = "/users"
    /\ Len(ret) = 1
    /\ ret[1].path = "/api/users"

(***************************************************************************)
(* DBAccessAnalyzer                                                        *)
(* An analyzer is [access_tables, call_graph_builder]: the configured      *)
(* table entries and <<>> for no builder or <<builder>>. A mapper file is  *)
(* [path, error, sql_queries]: what the XML parser returns for it. The SQL *)
(* strategy is a table of what each SQL text references.                   *)
(***************************************************************************)
Query(id, namespace, sql, query_type, result_type) ==
    [id |-> id, namespace |-> namespace, sql |-> sql, query_type |-> query_type,
     result_type |-> result_type]

MapperFile(path, sql_queries) == [path |-> path, error |-> "", sql_queries |-> sql_queries]

\* SourceFile.extension
Extension(f) == "." \o Last(Split(f.path, "."))

\* XMLMapperParser.parse_mapper_file
parse_mapper_file(f) == [error |-> f.error, sql_queries |-> f.sql_queries]

\* the tables and, by lowercased table, the columns each SQL text references
SqlReferences ==
    ("SELECT id, total FROM orders WHERE status=?" :>
        [tables |-> {"orders"}, columns |-> ("orders" :> {"id", "total", "status"})])
    @@ ("UPDATE ORDERS SET Total = ?" :>
        [tables |-> {"ORDERS"}, columns |-> ("orders" :> {"Total"})])
    @@ ("SELECT NAME FROM users" :>
        [tables |-> {"users"}, columns |-> ("users" :> {"NAME"})])
    @@ ("SELECT o.STATUS, u.name FROM Orders o JOIN users u" :>
        [tables |-> {"Orders", "users"},
         columns |-> ("orders" :> {"STATUS"} @@ "users" :> {"name"})])

\* sql_strategy.extract_table_names
extract_table_names(sql) ==
    IF sql \in DOMAIN SqlReferences THEN SqlReferences[sql].tables ELSE {}

\* sql_strategy.extract_column_names
extract_column_names(sql, table_name) ==
    IF sql \in DOMAIN SqlReferences /\ Lower(table_name) \in DOMAIN SqlReferences[sql].columns
    THEN SqlReferences[sql].columns[Lower(table_name)]
    ELSE {}

LowerAll(S) == {Lower(x) : x \in S}

\* _find_matching_sql_queries when the column test is left out
_find_matching_sql_queries_by_table(sql_queries, table_name, columns) ==
    SelectSeq(sql_queries, LAMBDA q :
        /\ q.sql # ""
        /\ Lower(table_name) \in LowerAll(extract_table_names(q.sql)))

\* _find_matching_sql_queries
_find_matching_sql_queries(sql_queries, table_name, columns) ==
    SelectSeq(sql_queries, LAMBDA q :
        /\ q.sql # ""
        /\ Lower(table_name) \in LowerAll(extract_table_names(q.sql))
        /\ columns \cap LowerAll(extract_column_names(q.sql, table_name)) # {})

\* _extract_used_columns when every referenced column is kept
_extract_used_columns_unfiltered(sql_queries, table_name, config_columns) ==
    UNION {LowerAll(extract_column_names(sql_queries[i].sql, table_name)) :
              i \in {k \in DOMAIN sql_queries : sql_queries[k].sql # ""}}

\* _extract_used_columns
_extract_used_columns(sql_queries, table_name, config_columns) ==
    UNION {config_columns \cap LowerAll(extract_column_names(sql_queries[i].sql, table_name)) :
              i \in {k \in DOMAIN sql_queries : sql_queries[k].sql # ""}}

\* class_info_map[key].append(info) on a defaultdict(list)
AppendInfo(m, key, info) == Put(m, key, Get(m, key, <<>>) \o <<info>>)

\* the entries one class adds: under its simple name and, with a package, its full name
AddClassInfo(m, cls, file_path) ==
    LET full_class_name == IF cls.package # "" THEN cls.package \o "." \o cls.name ELSE cls.name
        info == [class_name |-> cls.name, package |-> cls.package,
                 full_class_name |-> full_class_name, file_path |-> file_path]
        m1 == AppendInfo(m, cls.name, info)
    IN IF cls.package # "" THEN AppendInfo(m1, full_class_name, info) ELSE m1

\* _collect_class_info_map: from the builder's file_to_classes_map when it has
\* one, otherwise from the .java files parsed here
_collect_class_info_map(analyzer, source_files) ==
    LET AddFile(m, file_path, classes) ==
            FoldLeft(LAMBDA acc, cls : AddClassInfo(acc, cls, file_path), m, classes)
    IN IF analyzer.call_graph_builder # <<>>
          /\ Len(analyzer.call_graph_builder[1].file_to_classes_map) > 0
       THEN FoldLeft(LAMBDA m, e : AddFile(m, e.key, e.value), EmptyDict,
                     analyzer.call_graph_builder[1].file_to_classes_map)
       ELSE FoldLeft(LAMBDA m, f : IF Extension(f) = ".java" /\ f.error = ""
                                   THEN AddFile(m, f.path, f.classes) ELSE m,
                     EmptyDict, source_files)

\* _find_class_file: "" stands for None
_find_class_file(full_class_name, class_infos_by_name) ==
    LET simple_class_name == Last(Split(full_class_name, "."))
    IN IF full_class_name \in DOMAIN class_infos_by_name
          /\ class_infos_by_name[full_class_name] # <<>>
       THEN class_infos_by_name[full_class_name][1].file_path
       ELSE IF simple_class_name \in DOMAIN class_infos_by_name
       THEN LET class_infos == class_infos_by_name[simple_class_name]
                same == {i \in DOMAIN class_infos :
                            class_infos[i].full_class_name = full_class_name}
            IN IF same # {}
               THEN class_infos[CHOOSE i \in same : \A k \in same : i <= k].file_path
               ELSE IF class_infos # <<>> THEN class_infos[1].file_path
               ELSE ""
       ELSE ""

\* _build_method_string: "" stands for None
_build_method_string(namespace, query_id) ==
    IF namespace = "" \/ query_id = "" THEN ""
    ELSE Last(Split(namespace, ".")) \o "." \o query_id

\* max_depth of traverse_up
TraverseMaxDepth == 20

RECURSIVE traverse_up(_, _, _, _)
\* traverse_up when the walk stops at the node it starts from
traverse_up_without_callers(self, st, node, depth) ==
    IF depth > 0 \/ node \in st.visited THEN st
    ELSE LET metadata == Get(self.method_metadata, node, EmptyDict)
             layer == _get_layer(self, node)
             file_path == Get(metadata, "file_path", "")
             st1 == [visited |-> st.visited \cup {node},
                     result |-> IF layer # "" /\ file_path # "" /\ layer # "Unknown"
                                THEN Append(st.result, <<Lower(layer), file_path>>)
                                ELSE st.result]
         IN IF HasNode(self.call_graph, node)
            THEN FoldLeft(LAMBDA acc, predecessor : traverse_up(self, acc, predecessor, depth + 1),
                          st1, predecessors(self.call_graph, node))
            ELSE st1

\* the nested traverse_up of _find_upper_layer_files; st holds visited and result
traverse_up(self, st, node, depth) ==
    IF depth > TraverseMaxDepth \/ node \in st.visited THEN st
    ELSE LET metadata == Get(self.method_metadata, node, EmptyDict)
             layer == _get_layer(self, node)
             file_path == Get(metadata, "file_path", "")
             st1 == [visited |-> st.visited \cup {node},
                     result |-> IF layer # "" /\ file_path # "" /\ layer # "Unknown"
                                THEN Append(st.result, <<Lower(layer), file_path>>)
                                ELSE st.result]
         IN IF HasNode(self.call_graph, node)
            THEN FoldLeft(LAMBDA acc, predecessor : traverse_up(self, acc, predecessor, depth + 1),
                          st1, predecessors(self.call_graph, node))
            ELSE st1

\* bool(call_graph) of a builder: a graph with at least one node
HasGraph(self) == ~self.call_graph.is_none /\ Len(self.call_graph.nodes) > 0

\* _find_upper_layer_files when only a node with the exact signature starts a walk
_find_upper_layer_files_exact_only(analyzer, method_string) ==
    IF analyzer.call_graph_builder = <<>> THEN <<>>
    ELSE IF ~HasGraph(analyzer.call_graph_builder[1]) THEN <<>>
    ELSE LET self == analyzer.call_graph_builder[1]
             Walk(start) == traverse_up(self, [visited |-> {}, result |-> <<>>], start, 0).result
         IN IF HasNode(self.call_graph, method_string) THEN Walk(method_string)
            ELSE <<>>

\* _find_upper_layer_files: the (layer, file_path) pairs, in the order found
_find_upper_layer_files(analyzer, method_string) ==
    IF analyzer.call_graph_builder = <<>> THEN <<>>
    ELSE IF ~HasGraph(analyzer.call_graph_builder[1]) THEN <<>>
    ELSE LET self == analyzer.call_graph_builder[1]
             nodes == self.call_graph.nodes
             partial == {i \in DOMAIN nodes :
                            \/ Contains(nodes[i], method_string)
                            \/ EndsWith(nodes[i], "." \o Last(Split(method_string, ".")))}
             Walk(start) == traverse_up(self, [visited |-> {}, result |-> <<>>], start, 0).result
         IN IF HasNode(self.call_graph, method_string) THEN Walk(method_string)
            ELSE IF partial # {}
            THEN Walk(nodes[CHOOSE i \in partial : \A k \in partial : i <= k])
            ELSE <<>>

\* str.capitalize
Capitalize(s) == IF s = "" THEN "" ELSE Upper(SubSeq(s, 1, 1)) \o Lower(SubSeq(s, 2, Len(s)))

\* _determine_main_layer when the last of the layers with the most files is taken
_determine_main_layer_last_maximum(layer_files) ==
    IF layer_files = <<>> THEN "Unknown"
    ELSE LET most == CHOOSE i \in DOMAIN layer_files :
                        /\ \A k \in DOMAIN layer_files :
                              Cardinality(layer_files[k].value) <= Cardinality(layer_files[i].value)
                        /\ \A k \in (i + 1)..Len(layer_files) :
                              Cardinality(layer_files[k].value) < Cardinality(layer_files[i].value)
         IN IF layer_files[most].key # "" THEN Capitalize(layer_files[most].key) ELSE "Unknown"

\* _determine_main_layer: the first layer, in insertion order, with the most files
_determine_main_layer(layer_files) ==
    IF layer_files = <<>> THEN "Unknown"
    ELSE LET most == CHOOSE i \in DOMAIN layer_files :
                        /\ \A k \in DOMAIN layer_files :
                              Cardinality(layer_files[k].value) <= Cardinality(layer_files[i].value)
                        /\ \A k \in 1..(i - 1) :
                              Cardinality(layer_files[k].value) < Cardinality(layer_files[i].value)
         IN IF layer_files[most].key # "" THEN Capitalize(layer_files[most].key) ELSE "Unknown"

\* layer_files[layer].add(file_path) on a defaultdict(set), kept in insertion order
AddLayerFile(layer_files, layer, file_path) ==
    IF \E i \in DOMAIN layer_files : layer_files[i].key = layer
    THEN [i \in DOMAIN layer_files |->
             IF layer_files[i].key = layer
             THEN [key |-> layer, value |-> layer_files[i].value \cup {file_path}]
             ELSE layer_files[i]]
    ELSE Append(layer_files, [key |-> layer, value |-> {file_path}])

\* the file of a class name is attributed to a layer unless it was attributed before
AttributeClassFile(st, class_name, layer, class_infos_by_name) ==
    LET file == IF class_name # "" THEN _find_class_file(class_name, class_infos_by_name) ELSE ""
    IN IF file # "" /\ file \notin st.all_added_files
       THEN [st EXCEPT !.interface_files = IF layer = "interface" THEN @ \cup {file} ELSE @,
                       !.dao_files = IF layer = "dao" THEN @ \cup {file} ELSE @,
                       !.layer_files = AddLayerFile(@, layer, file),
                       !.all_added_files = @ \cup {file}]
       ELSE st

\* QueryStep when the files of the walk are added without looking at all_added_files
QueryStep_without_dedup(analyzer, st, sql_query_info, class_infos_by_name) ==
    LET st1 == [st EXCEPT !.sql_queries = Append(@, sql_query_info)]
        st2 == AttributeClassFile(st1, sql_query_info.namespace, "interface", class_infos_by_name)
        st3 == AttributeClassFile(st2, sql_query_info.result_type, "dao", class_infos_by_name)
        method_string == _build_method_string(sql_query_info.namespace, sql_query_info.id)
        Upper_(acc, pair) ==
            IF pair[1] # "" /\ pair[2] # ""
            THEN [acc EXCEPT !.layer_files = AddLayerFile(@, pair[1], pair[2]),
                             !.all_added_files = @ \cup {pair[2]}]
            ELSE acc
    IN IF /\ method_string # ""
          /\ analyzer.call_graph_builder # <<>>
          /\ HasGraph(analyzer.call_graph_builder[1])
       THEN FoldLeft(Upper_, st3, _find_upper_layer_files(analyzer, method_string))
       ELSE st3

\* the body of the loop over the matching queries of one mapper file
QueryStep(analyzer, st, sql_query_info, class_infos_by_name) ==
    LET st1 == [st EXCEPT !.sql_queries = Append(@, sql_query_info)]
        st2 == AttributeClassFile(st1, sql_query_info.namespace, "interface", class_infos_by_name)
        st3 == AttributeClassFile(st2, sql_query_info.result_type, "dao", class_infos_by_name)
        method_string == _build_method_string(sql_query_info.namespace, sql_query_info.id)
        Upper_(acc, pair) ==
            IF pair[1] # "" /\ pair[2] # "" /\ pair[2] \notin acc.all_added_files
            THEN [acc EXCEPT !.layer_files = AddLayerFile(@, pair[1], pair[2]),
                             !.all_added_files = @ \cup {pair[2]}]
            ELSE acc
    IN IF /\ method_string # ""
          /\ analyzer.call_graph_builder # <<>>
          /\ HasGraph(analyzer.call_graph_builder[1])
       THEN FoldLeft(Upper_, st3, _find_upper_layer_files(analyzer, method_string))
       ELSE st3

\* _analyze_table_access: <<>> stands for None, <<info>> for a TableAccessInfo
_analyze_table_access(analyzer, table_name, columns, source_files, class_infos_by_name) ==
    LET xml_files == SelectSeq(source_files, LAMBDA f : Extension(f) = ".xml")
        FileStep(st, xml_file) ==
            LET result == parse_mapper_file(xml_file)
                matching_queries == _find_matching_sql_queries(result.sql_queries, table_name,
                                                               columns)
            IN IF result.error # "" THEN st
               ELSE FoldLeft(LAMBDA acc, q : QueryStep(analyzer, acc, q, class_infos_by_name),
                             st, matching_queries)
    IN With(FoldLeft(FileStep,
                     [sql_queries |-> <<>>, interface_files |-> {}, dao_files |-> {},
                      layer_files |-> <<>>, all_added_files |-> {}],
                     xml_files),
            LAMBDA final :
                IF final.sql_queries = <<>> THEN <<>>
                ELSE <<[table_name |-> table_name,
                        columns |-> Sorted(_extract_used_columns(final.sql_queries, table_name,
                                                                 columns)),
                        access_files |-> Sorted(final.interface_files \cup final.dao_files
                                                \cup UNION {final.layer_files[i].value :
                                                                i \in DOMAIN final.layer_files}),
                        query_type |-> final.sql_queries[1].query_type,
                        sql_query |-> final.sql_queries[1].sql,
                        layer |-> _determine_main_layer(final.layer_files),
                        sql_queries |-> final.sql_queries,
                        layer_files |-> [i \in DOMAIN final.layer_files |->
                                            [key |-> final.layer_files[i].key,
                                             value |-> Sorted(final.layer_files[i].value)]]]>>)

\* analyze: the list of TableAccessInfo, one configured entry after the other
analyze(analyzer, source_files) ==
    LET class_infos_by_name == _collect_class_info_map(analyzer, source_files)
        Step(table_access_info_list, table_config) ==
            LET table_name == Lower(table_config.table_name)
                columns == LowerAll(Range(table_config.columns))
            IN IF table_name = "" THEN table_access_info_list
               ELSE table_access_info_list
                    \o _analyze_table_access(analyzer, table_name, columns, source_files,
                                             class_infos_by_name)
    IN FoldLeft(Step, <<>>, analyzer.access_tables)

(***************************************************************************)
(* A project for the analyzer: configured tables, mapper files and the     *)
(* java files of the order scenario (SpecDB)                               *)
(***************************************************************************)
OrderMapperXml ==
    MapperFile("mapper/OrderMapper.xml",
        <<Query("selectById", "com.shop.mapper.OrderMapper",
                "SELECT id, total FROM orders WHERE status=?", "SELECT", "com.shop.model.Order"),
          Query("updateTotal", "com.shop.mapper.OrderMapper",
                "UPDATE ORDERS SET Total = ?", "UPDATE", "")>>)

UserMapperXml ==
    MapperFile("mapper/UserMapper.xml",
        <<Query("selectUser", "com.shop.mapper.UserMapper",
                "SELECT NAME FROM users", "SELECT", "com.shop.service.OrderService"),
          Query("find", "OrderService",
                "SELECT o.STATUS, u.name FROM Orders o JOIN users u", "SELECT", "")>>)

AuditXml ==
    MapperFile("mapper/Audit.xml",
        <<Query("touch", "", "UPDATE ORDERS SET Total = ?", "UPDATE", "OrderMapper"),
          Query("empty", "com.shop.mapper.OrderMapper", "", "SELECT", "")>>)

MapperFileVariants == {OrderMapperXml, UserMapperXml, AuditXml, Unreadable(OrderMapperXml)}

MaxMapperFiles == 2

\* lists of mapper files with distinct paths
MapperFileLists ==
    {q \in UNION {[1..k -> MapperFileVariants] : k \in 0..MaxMapperFiles} :
        \A i, j \in DOMAIN q : i # j => q[i].path # q[j].path}

\* a second service class that calls the mapper
ReportServiceFile ==
    SourceFile("service/ReportService.java",
        <<ClassInfo("ReportService", "com.shop.service", <<"Service">>, <<>>,
            <<Decl("orderMapper", "OrderMapper")>>,
            <<Method("report", <<>>, <<>>, <<>>, <<"orderMapper.selectById">>)>>,
            "service/ReportService.java")>>,
        <<"ReportService", TRUE>> :> ("Service" :> "@Service"))

JavaFileLists == {<<>>, <<OrderControllerFile, OrderServiceFile, OrderMapperFile>>,
                  <<OrderControllerFile, OrderServiceFile, ReportServiceFile, OrderMapperFile>>,
                  <<OrderServiceFile, Unreadable(OrderMapperFile), OrderControllerFile>>}

TableConfig(table_name, columns) == [table_name |-> table_name, columns |-> columns]

TableConfigs == {TableConfig("orders", <<"id", "status">>), TableConfig("ORDERS", <<"Total", "ID">>),
                 TableConfig("users", <<"email">>), TableConfig("", <<"id">>)}

MaxTables == 2

\* the configured access_tables: lists of distinct entries
TableConfigLists ==
    {q \in UNION {[1..k -> TableConfigs] : k \in 0..MaxTables} :
        \A i, j \in DOMAIN q : i # j => q[i] # q[j]}

\* the DBAccessAnalyzer of the run, on the builder as it is now
Analyzer == [access_tables |-> arg.access_tables,
             call_graph_builder |-> IF arg.with_builder THEN <<Current>> ELSE <<>>]

InitDB ==
    /\ Constructed
    /\ builds = 0
    /\ op = "input"
    /\ \E java_files \in JavaFileLists, mapper_files \in MapperFileLists :
          arg \in [access_tables : TableConfigLists,
                   source_files : {java_files \o mapper_files},
                   with_builder : BOOLEAN]
    /\ ret = <<>>

\* build_call_graph on the .java files of the project
Call_build_project ==
    /\ builds = 0
    /\ Store(build_call_graph(Current,
                              SelectSeq(arg.source_files, LAMBDA f : Extension(f) = ".java")))
    /\ builds' = builds + 1
    /\ op' = "build_call_graph"
    /\ ret' = <<>>
    /\ UNCHANGED <<cache, pool, arg>>

Call_analyze ==
    /\ op' = "analyze"
    /\ ret' = analyze(Analyzer, arg.source_files)
    /\ UNCHANGED <<builder, cache, pool, builds, arg>>

NextDB ==
    \/ Call_build_project
    \/ Call_analyze

SpecDB == InitDB /\ [][NextDB]_vars

(***************************************************************************)
(* Properties of analyze (SpecDB)                                          *)
(***************************************************************************)
\* what the SQL strategy reports for the text of a query record
References(q) ==
    IF q.sql \in DOMAIN SqlReferences THEN SqlReferences[q.sql]
    ELSE [tables |-> {}, columns |-> EmptyDict]

\* the columns a query record references for a table, lowercased
ReferencedColumns(q, table_config) ==
    LET table == Lower(table_config.table_name)
    IN IF table \in DOMAIN References(q).columns
       THEN {Lower(c) : c \in References(q).columns[table]}
       ELSE {}

\* the configured columns, lowercased
ConfiguredColumns(table_config) == {Lower(k) : k \in Range(table_config.columns)}

\* the query references the table, whatever the case, and one configured column at least
QueryMatches(q, table_config) ==
    /\ \E t \in References(q).tables : Lower(t) = Lower(table_config.table_name)
    /\ ReferencedColumns(q, table_config) \cap ConfiguredColumns(table_config) # {}

\* the query records of the mapper files that were read, in file order
RECURSIVE AvailableQueries(_)
AvailableQueries(source_files) ==
    IF source_files = <<>> THEN <<>>
    ELSE (IF EndsWith(Head(source_files).path, ".xml") /\ Head(source_files).error = ""
          THEN Head(source_files).sql_queries ELSE <<>>)
         \o AvailableQueries(Tail(source_files))

\* the query records that match a configured entry
MatchedQueries(table_config) ==
    SelectSeq(AvailableQueries(arg.source_files), LAMBDA q : QueryMatches(q, table_config))

\* the configured entries that have a matching query record, in configured order
MatchedEntries == SelectSeq(arg.access_tables, LAMBDA t : MatchedQueries(t) # <<>>)

\* C9: analyze returns one TableAccessInfo for each configured entry that has a
\* matching query record, in configured order, and none for the other entries; a
\* query matches when the table is among the tables it references, whatever the
\* case, and it references at least one configured column
C9_OneRecordPerMatchedEntry ==
    op = "analyze" =>
        /\ Len(ret) = Len(MatchedEntries)
        /\ \A i \in DOMAIN ret :
              /\ ret[i].table_name = Lower(MatchedEntries[i].table_name)
              /\ ret[i].sql_queries = MatchedQueries(MatchedEntries[i])

\* C9 witness: of two configured entries one has a matching query, the other is
\* referenced by a query that uses none of its configured columns and gets no record
C9_TableReferencedWithoutColumn ==
    /\ op = "analyze"
    /\ Len(arg.access_tables) = 2
    /\ Len(ret) = 1
    /\ \E i \in DOMAIN arg.access_tables, q \in Range(AvailableQueries(arg.source_files)) :
          /\ Lower(arg.access_tables[i].table_name) # ret[1].table_name
          /\ \E t \in References(q).tables : Lower(t) = Lower(arg.access_tables[i].table_name)
          /\ ~QueryMatches(q, arg.access_tables[i])

\* C10: the columns of a TableAccessInfo are the configured columns, lowercased,
\* that the matched queries of the table reference, in ascending order; a column
\* that is referenced but not configured is not among them
C10_ColumnsAreConfiguredAndReferenced ==
    op = "analyze" /\ Len(ret) = Len(MatchedEntries) =>
        \A i \in DOMAIN ret :
            /\ Range(ret[i].columns)
                   = UNION {ReferencedColumns(q, MatchedEntries[i])
                                \cap ConfiguredColumns(MatchedEntries[i]) :
                            q \in Range(MatchedQueries(MatchedEntries[i]))}
            /\ \A j \in 1..(Len(ret[i].columns) - 1) :
                  StrLess(ret[i].columns[j], ret[i].columns[j + 1])
            /\ Range(ret[i].columns) \subseteq ConfiguredColumns(MatchedEntries[i])

\* C10 witness: orders is configured with id and status, a matched query
\* references id, total and status, and the record lists id and status
C10_TotalLeftOut ==
    /\ op = "analyze"
    /\ \E i \in DOMAIN ret :
          /\ ret[i].table_name = "orders"
          /\ ret[i].columns = <<"id", "status">>
          /\ \E q \in Range(ret[i].sql_queries) :
                "total" \in ReferencedColumns(q, TableConfig("orders", <<"id", "status">>))

\* the files a record lists under a layer key
LayerFilesOf(info, layer) ==
    UNION {Range(info.layer_files[i].value) :
              i \in {k \in DOMAIN info.layer_files : info.layer_files[k].key = layer}}

\* the order scenario: analyze has run with a builder whose graph was built from
\* the controller, service and mapper classes, and OrderMapper.xml was read
OrderScenario ==
    /\ op = "analyze"
    /\ arg.with_builder
    /\ builds = 1
    /\ SelectSeq(arg.source_files, LAMBDA f : Extension(f) = ".java")
           = <<OrderControllerFile, OrderServiceFile, OrderMapperFile>>
    /\ OrderMapperXml \in Range(arg.source_files)

KeysOf(info, file) ==
    {info.layer_files[k].key :
        k \in {j \in DOMAIN info.layer_files : file \in Range(info.layer_files[j].value)}}

ENCODINGS == <<"utf-8", "euc-kr", "cp949", "latin-1", "iso-8859-1">>

\* open(file_path, 'r', encoding=...) followed by f.read(): the text read, or
\* the exception raised
Text(source_code) == [raises |-> "", source_code |-> source_code]

Fails(exception) == [raises |-> exception, source_code |-> ""]

\* the tree that self.parser.parse builds from the bytes of a text
Tree(source_code) == [source |-> source_code]

\* the message for a file no encoding could read
NoEncodingError(file_path) == "no supported encoding: " \o file_path

\* the messages of the two handlers around the whole body
FileNotFoundMessage(file_path) == "file not found: " \o file_path

ParseErrorMessage(exception) == "error while parsing: " \o exception

\* the loop continues after an attempt that read the file: the last readable
\* encoding decides
RECURSIVE ReadSource_keeps_trying(_, _)
ReadSource_keeps_trying(reads, i) ==
    IF i > Len(ENCODINGS) THEN [source_code |-> <<>>, attempts |-> <<>>]
    ELSE LET rest == ReadSource_keeps_trying(reads, i + 1)
         IN [source_code |-> IF reads[i].raises = "" /\ rest.source_code = <<>>
                             THEN <<reads[i].source_code>>
                             ELSE rest.source_code,
             attempts |-> <<ENCODINGS[i]>> \o rest.attempts]

RECURSIVE ReadSource(_, _)
\* the loop over the encodings from the i-th on: source_code (<<>> for None)
\* and the encodings the file was opened with
ReadSource(reads, i) ==
    IF i > Len(ENCODINGS) THEN [source_code |-> <<>>, attempts |-> <<>>]
    ELSE IF reads[i].raises = ""
    THEN [source_code |-> <<reads[i].source_code>>, attempts |-> <<ENCODINGS[i]>>]
    ELSE LET rest == ReadSource(reads, i + 1)
         IN [source_code |-> rest.source_code,
             attempts |-> <<ENCODINGS[i]>> \o rest.attempts]

\* a return of (tree, error), with the encodings tried and the cache left behind
Returns(tree, error, attempts, cache_manager) ==
    [raises |-> "", tree |-> tree, error |-> error, attempts |-> attempts,
     cache_manager |-> cache_manager]

\* an exception leaving the block, with what had happened before it
Raises(exception, attempts, cache_manager) ==
    [raises |-> exception, tree |-> <<>>, error |-> "", attempts |-> attempts,
     cache_manager |-> cache_manager]

\* the statements inside the try block of parse_file
ParseBody(self, reads, file_path) ==
    IF file_path \in DOMAIN self.cache_manager
    THEN Returns(<<self.cache_manager[file_path]>>, "", <<>>, self.cache_manager)
    ELSE With(ReadSource(reads, 1), LAMBDA read :
         IF read.source_code = <<>>
         THEN Returns(<<>>, NoEncodingError(file_path), read.attempts, self.cache_manager)
         ELSE IF self.parser_raises # ""
         THEN Raises(self.parser_raises, read.attempts, self.cache_manager)
         ELSE Returns(<<Tree(read.source_code[1])>>, "", read.attempts,
                      Put(self.cache_manager, file_path, Tree(read.source_code[1]))))

\* parse_file(file_path) -> (tree, error): the body under its two handlers
parse_file(self, reads, file_path) ==
    With(ParseBody(self, reads, file_path), LAMBDA body :
         IF body.raises = "" THEN body
         ELSE IF body.raises = "FileNotFoundError"
         THEN Returns(<<>>, FileNotFoundMessage(file_path), body.attempts, body.cache_manager)
         ELSE Returns(<<>>, ParseErrorMessage(body.raises), body.attempts, body.cache_manager))

\* Universe of SpecParse: what each attempt to read a file gives
ReadOutcomes == {Fails("UnicodeDecodeError"), Fails("FileNotFoundError"),
                 Text("class A {}"), Text("class B {}")}

\* B.java is missing, or an empty file
FixedReads == {[i \in DOMAIN ENCODINGS |-> Fails("FileNotFoundError")],
               [i \in DOMAIN ENCODINGS |-> Text("")]}

ParserExceptions == {"", "ValueError", "FileNotFoundError"}

\* the JavaASTParser of the run
Parser == [cache_manager |-> cache, parser_raises |-> arg.parser_raises]

InitParse ==
    /\ Constructed
    /\ builds = 0
    /\ op = "input"
    /\ \E a \in [DOMAIN ENCODINGS -> ReadOutcomes], b \in FixedReads :
          arg \in [disk : {[p \in ParsePaths |-> IF p = "A.java" THEN a ELSE b]},
                   parser_raises : ParserExceptions]
    /\ ret = <<>>

Call_parse_file(file_path) ==
    /\ op' = "parse_file"
    /\ \E result \in {parse_file(Parser, arg.disk[file_path], file_path)} :
          /\ cache' = result.cache_manager
          /\ ret' = [file_path |-> file_path, raises |-> result.raises,
                     tree |-> result.tree, error |-> result.error,
                     attempts |-> result.attempts]
    /\ UNCHANGED <<builder, pool, builds, arg>>

NextParse == \E file_path \in ParsePaths : Call_parse_file(file_path)

SpecParse == InitParse /\ [][NextParse]_vars

(***************************************************************************)
(* Properties of parse_file (SpecParse)                                    *)
(***************************************************************************)
\* the positions of the encodings that read the file of the last call
Readable == {i \in DOMAIN ENCODINGS : arg.disk[ret.file_path][i].raises = ""}

\* the first of them
FirstReadable == CHOOSE i \in Readable : \A j \in Readable : i <= j

\* C12: parse_file never raises and returns either a tree and no error or no
\* tree and an error; a call that reads the file opens it with the encodings
\* in the order utf-8, euc-kr, cp949, latin-1, iso-8859-1 up to the first that
\* reads it and parses what that one read; when none reads it the result is the
\* no-supported-encoding error; a tree taken from the cache is the tree of
\* the first readable encoding
C12_FirstReadableEncodingIsParsed ==
    op = "parse_file" =>
       /\ ret.raises = ""
       /\ (ret.tree = <<>>) # (ret.error = "")
       /\ ret.attempts = <<>> =>
             /\ Readable # {}
             /\ ret.tree = <<Tree(arg.disk[ret.file_path][FirstReadable].source_code)>>
       /\ ret.attempts # <<>> /\ Readable = {} =>
             /\ ret.attempts = ENCODINGS
             /\ ret.tree = <<>>
             /\ ret.error = NoEncodingError(ret.file_path)
       /\ ret.attempts # <<>> /\ Readable # {} =>
             /\ ret.attempts = SubSeq(ENCODINGS, 1, FirstReadable)
             /\ \/ ret.tree = <<Tree(arg.disk[ret.file_path][FirstReadable].source_code)>>
                \/ /\ arg.parser_raises # ""
                   /\ ret.error \in {ParseErrorMessage(arg.parser_raises),
                                     FileNotFoundMessage(ret.file_path)}

\* a file that the third encoding is the first to read and a later one reads
\* differently has been parsed
C12_ThirdEncodingReads ==
    /\ op = "parse_file"
    /\ ret.attempts = <<"utf-8", "euc-kr", "cp949">>
    /\ \E j \in 4..5 : /\ j \in Readable
                       /\ arg.disk[ret.file_path][j] # arg.disk[ret.file_path][3]
    /\ ret.tree = <<Tree(arg.disk[ret.file_path][3].source_code)>>

(***************************************************************************)
(* Properties of call resolution (Spec)                                    *)
(***************************************************************************)
\* the classes of the files that parsed, in file order
ParsedClasses(java_files) ==
    FoldLeft(LAMBDA acc, f : acc \o f.classes, <<>>, ReadableFiles(java_files))

\* the type, without generic parameters, of the last declaration of a name
\* among declarations that have a name and a type; "" when there is none
DeclaredType(decls, name) ==
    LET hits == {i \in DOMAIN decls : decls[i].name = name /\ name # "" /\ decls[i].type # ""}
        last == CHOOSE i \in hits : \A j \in hits : j <= i
        type == decls[last].type
    IN IF hits = {} THEN ""
       ELSE IF Contains(type, "<") THEN SubSeq(type, 1, IndexOf(type, "<") - 1) ELSE type

\* the text after the last "." of a call
RECURSIVE MethodPart(_)
MethodPart(call) ==
    IF Contains(call, ".") THEN MethodPart(SubSeq(call, IndexOf(call, ".") + 1, Len(call)))
    ELSE call

\* the callee the rules give for a call of a method of a class with the given fields
RuleCallee(class_name, fields, method, call) ==
    IF ~Contains(call, ".") THEN class_name \o "." \o call
    ELSE LET receiver == SubSeq(call, 1, IndexOf(call, ".") - 1)
             field_type == DeclaredType(fields, receiver)
             variable_type == DeclaredType(method.parameters \o method.local_variables, receiver)
         IN IF field_type # "" THEN field_type \o "." \o MethodPart(call)
            ELSE IF variable_type # "" THEN variable_type \o "." \o MethodPart(call)
            ELSE call

\* the fields of the last parsed class that has the simple name of cls
IndexedFields(java_files, cls) ==
    LET classes == ParsedClasses(java_files)
        same == {i \in DOMAIN classes : classes[i].name = cls.name}
    IN classes[CHOOSE i \in same : \A j \in same : j <= i].fields

\* caller -> callee for every call site of the parsed classes, with the fields
\* of the class itself (own) or those its simple name is indexed with
RuleEdges(java_files, own) ==
    UNION {UNION {{<<cls.name \o "." \o method.name,
                     RuleCallee(cls.name,
                                IF own THEN cls.fields ELSE IndexedFields(java_files, cls),
                                method, call)>> : call \in Range(method.method_calls)} :
                  method \in Range(cls.methods)} :
           cls \in Range(ParsedClasses(java_files))}

\* C13 as stated: the edges of the built graph are those the rules give with
\* the fields of the class that declares the calling method (field, then
\* parameter or local variable, then the call string verbatim, then C.method)
C13_ResolvedByOwnFields ==
    op = "build_call_graph" => Edges(call_graph) = RuleEdges(arg.java_files, TRUE)

\* C13 amended: the edges of the built graph are those the rules give with the
\* fields of the last parsed class that has the simple name of the class that
\* declares the calling method: a field takes precedence over a parameter or
\* local variable of the same name, an unknown receiver keeps the call string
\* verbatim, and a call without receiver becomes C.method
C13_ResolvedByIndexedFields ==
    op = "build_call_graph" => Edges(call_graph) = RuleEdges(arg.java_files, FALSE)

\* C13 witness: OrderService.validate, whose parameter cache has the name of a
\* field of type Map<String, Order>, calls cache.get and the edge goes to Map.get
C13_FieldBeforeParameter ==
    /\ op = "build_call_graph"
    /\ <<"OrderService.validate", "Map.get">> \in Edges(call_graph)
    /\ <<"OrderService.find", "AuditLog.record">> \in Edges(call_graph)
    /\ <<"OrderService.find", "Objects.requireNonNull">> \in Edges(call_graph)
    /\ <<"OrderService.validate", "OrderService.find">> \in Edges(call_graph)
    /\ \A n \in Range(call_graph.nodes) : n # "LocalCache.get"

\* the callees Type.method of the call sites of the classes whose receiver is
\* a field (of the indexed class of that name) or else a parameter or local
\* variable, of a type that is a known class; each with its type
ResolvedThroughReceiver(classes, cim) ==
    UNION {UNION {UNION {
        LET receiver == SubSeq(call, 1, IndexOf(call, ".") - 1)
            field_type == DeclaredType(cim[cls.name].fields, receiver)
            type == IF field_type # "" THEN field_type
                    ELSE DeclaredType(method.parameters \o method.local_variables, receiver)
        IN IF Contains(call, ".") /\ type \in DOMAIN cim
           THEN {[callee |-> type \o "." \o MethodPart(call), type |-> type]}
           ELSE {}
        : call \in Range(method.method_calls)} : method \in Range(cls.methods)} :
        cls \in classes}

\* C14: a callee ResolvedType.method reached through a field or variable whose
\* type is a known class has the file of ResolvedType as the file_path of its
\* node and as callee_file in every relation get_call_relations returns for
\* it, whether or not the class declares the method
C14_CalleeFileIsClassFile ==
    /\ op = "build_call_graph" =>
          \A r \in ResolvedThroughReceiver(Range(ParsedClasses(arg.java_files)), class_info_map) :
              call_graph.attrs[r.callee].file_path = class_info_map[r.type].file_path
    /\ op = "get_call_relations" =>
          \A r \in ResolvedThroughReceiver(Range(class_info_map), class_info_map) :
              \A i \in DOMAIN ret :
                  ret[i].callee = r.callee =>
                      ret[i].callee_file = class_info_map[r.type].file_path

(***************************************************************************)
(* The order of the tiers of _classify_layer (SpecLayer)                   *)
(***************************************************************************)
Tiers == <<"annotation", "class name", "interface", "package", "field">>

TierMatches(tier, cls, method) ==
    CASE tier = "annotation" -> AnnotationRuleMatches(cls, method)
      [] tier = "class name" -> ClassNameRuleMatches(cls)
      [] tier = "interface" -> InterfaceRuleMatches(cls)
      [] tier = "package" -> PackageRuleMatches(cls)
      [] tier = "field" -> FieldRuleMatches(cls)

\* the class and the method with the facts of one tier only
OnlyTier(tier, cls, method) ==
    [cls |-> ClassInfo(IF tier = "class name" THEN cls.name ELSE "",
                       IF tier = "package" THEN cls.package ELSE "",
                       IF tier = "annotation" THEN cls.annotations ELSE <<>>,
                       IF tier = "interface" THEN cls.interfaces ELSE <<>>,
                       IF tier = "field" THEN cls.fields ELSE <<>>,
                       <<>>, cls.file_path),
     method |-> Method(method.name, IF tier = "annotation" THEN method.annotations ELSE <<>>,
                       <<>>, <<>>, <<>>)]

\* the positions of the tiers in which a rule matches
MatchingTiers(cls, method) == {i \in DOMAIN Tiers : TierMatches(Tiers[i], cls, method)}

\* C15: the tiers are evaluated in the order annotation, class simple name,
\* implemented interface, package name, field type, and the result is that of
\* the first tier in which a rule matches whatever the later tiers hold: the
\* layer the class gets when only the facts of that tier are kept, which is
\* never Unknown
C15_FirstMatchingTierDecides ==
    (op = "_classify_layer" /\ MatchingTiers(arg.cls, arg.method) # {}) =>
        LET first == CHOOSE i \in MatchingTiers(arg.cls, arg.method) :
                        \A j \in MatchingTiers(arg.cls, arg.method) : i <= j
            only == OnlyTier(Tiers[first], arg.cls, arg.method)
        IN /\ ret = _classify_layer(only.cls, only.method)
           /\ ret # "Unknown"
           /\ MatchingTiers(only.cls, only.method) = {first}

\* C15 witness: annotation Service on the class UserController in a web
\* package with a mapper interface and a JdbcTemplate field is classified Service
C15_ServiceAnnotationOnController ==
    /\ op = "_classify_layer"
    /\ arg.cls.name = "UserController"
    /\ arg.cls.annotations = <<"Service">>
    /\ arg.cls.package = "com.shop.web"
    /\ arg.cls.interfaces = <<"BaseMapper">>
    /\ Len(arg.cls.fields) = 2
    /\ ret = "Service"

(***************************************************************************)
(* The chains of build_call_chains as paths of the graph (SpecGraph)       *)
(***************************************************************************)
\* build_call_chains has answered for an endpoint whose method is a node
ChainsFromNode ==
    /\ op = "build_call_chains"
    /\ arg.endpoint # <<>>
    /\ ~call_graph.is_none
    /\ HasNode(call_graph, arg.endpoint[1].method_signature)

RECURSIVE LeafPaths(_, _, _)
\* the simple paths that extend path by at most d edges and end in a node
\* without outgoing edges
LeafPaths(g, path, d) ==
    IF g.succ[Last(path)] = <<>> THEN {path}
    ELSE IF d = 0 THEN {}
    ELSE UNION {LeafPaths(g, Append(path, v), d - 1) :
                    v \in Range(g.succ[Last(path)]) \ Range(path)}

RECURSIVE CycleWalks(_, _, _)
\* the walks that extend the simple path by at most d edges, stay simple up
\* to their last edge, and end with that edge in a node they already hold
CycleWalks(g, path, d) ==
    IF d = 0 THEN {}
    ELSE UNION {IF v \in Range(path) THEN {Append(path, v)}
                ELSE CycleWalks(g, Append(path, v), d - 1) :
                    v \in Range(g.succ[Last(path)])}

\* the chains of the result that are not circular, in the order of the result
PlainChains == SelectSeq(ret, LAMBDA c : ~c.is_circular)

\* the position of v among the successors of u
SuccessorIndex(g, u, v) == CHOOSE i \in DOMAIN g.succ[u] : g.succ[u][i] = v

\* path p comes before path q in a depth-first walk in successor order: at
\* the first position where they differ p takes the earlier successor
DfsBefore(g, p, q) ==
    \E k \in 2..Len(p) :
        /\ k <= Len(q)
        /\ SubSeq(p, 1, k - 1) = SubSeq(q, 1, k - 1)
        /\ p[k] # q[k]
        /\ SuccessorIndex(g, p[k - 1], p[k]) < SuccessorIndex(g, p[k - 1], q[k])

\* C16: for a start node of the graph the non-circular chains are exactly the
\* simple paths from it to a node without outgoing edges that have at most
\* max_depth edges, each once, in depth-first successor order; the layers list
\* of a chain has the length of the chain and holds the layer of each node
C16_PlainChainsAreLeafPaths ==
    ChainsFromNode =>
        /\ {PlainChains[i].chain : i \in DOMAIN PlainChains}
              = LeafPaths(call_graph, <<arg.endpoint[1].method_signature>>, arg.max_depth)
        /\ \A i, j \in DOMAIN PlainChains :
              i < j => DfsBefore(call_graph, PlainChains[i].chain, PlainChains[j].chain)
        /\ \A i \in DOMAIN ret :
              /\ Len(ret[i].layers) = Len(ret[i].chain)
              /\ \A k \in DOMAIN ret[i].chain :
                    ret[i].layers[k] = call_graph.attrs[ret[i].chain[k]].layer

\* C16 witness: two non-circular chains of different length that end in the
\* same node, next to a circular chain
C16_TwoPathsToOneLeaf ==
    /\ ChainsFromNode
    /\ HasCircularChain(ret)
    /\ \E i, j \in DOMAIN PlainChains :
          /\ i < j
          /\ Last(PlainChains[i].chain) = Last(PlainChains[j].chain)
          /\ Len(PlainChains[i].chain) # Len(PlainChains[j].chain)

\* C17: with depth bound d every chain, circular or not, has at most d + 1
\* entries and is complete (a non-circular chain ends in a node without
\* outgoing edges, a circular chain ends in a node it already holds), and the
\* result is empty exactly when no path to such an end has at most d edges
C17_ChainsWithinDepthBound ==
    ChainsFromNode =>
        /\ \A i \in DOMAIN ret :
              /\ Len(ret[i].chain) <= arg.max_depth + 1
              /\ IF ret[i].is_circular
                 THEN ret[i].chain \in CycleWalks(call_graph,
                                                  <<arg.endpoint[1].method_signature>>,
                                                  arg.max_depth)
                 ELSE call_graph.succ[Last(ret[i].chain)] = <<>>
        /\ (ret = <<>>) <=>
              /\ LeafPaths(call_graph, <<arg.endpoint[1].method_signature>>, arg.max_depth) = {}
              /\ CycleWalks(call_graph, <<arg.endpoint[1].method_signature>>, arg.max_depth) = {}

\* C17 witness: a start node of a graph with a leaf and a cycle, each more
\* than max_depth edges away, and an empty result
C17_EverythingBeyondTheBound ==
    /\ ChainsFromNode
    /\ ret = <<>>
    /\ LeafPaths(call_graph, <<arg.endpoint[1].method_signature>>, arg.max_depth + 2) # {}
    /\ CycleWalks(call_graph, <<arg.endpoint[1].method_signature>>, arg.max_depth + 2) # {}

(***************************************************************************)
(* The tree of get_call_tree against the chains (SpecGraph)                *)
(***************************************************************************)
\* get_call_tree has answered on a built graph
TreeAnswered == op = "get_call_tree" /\ ~call_graph.is_none

RECURSIVE CircularLeaves(_, _)
\* the node sequences from the root to the leaves marked circular, left to right
CircularLeaves(tree, prefix) ==
    IF tree.is_circular THEN <<Append(prefix, tree.method_signature)>>
    ELSE FoldLeft(LAMBDA acc, child :
                      acc \o CircularLeaves(child, Append(prefix, tree.method_signature)),
                  <<>>, tree.children)

RECURSIVE CycleRule(_, _, _, _)
\* in the subtree under the path prefix: a node whose method is on the path is
\* marked circular and has no children; any other node is unmarked and has one
\* child per successor, in successor order, as far as the depth allows
CycleRule(g, tree, prefix, max_depth) ==
    IF tree.method_signature \in Range(prefix)
    THEN tree.is_circular /\ tree.children = <<>>
    ELSE /\ ~tree.is_circular
         /\ [i \in DOMAIN tree.children |-> tree.children[i].method_signature]
               = (IF Len(prefix) < max_depth THEN g.succ[tree.method_signature] ELSE <<>>)
         /\ \A i \in DOMAIN tree.children :
               CycleRule(g, tree.children[i], Append(prefix, tree.method_signature), max_depth)

\* the circular chains build_call_chains returns for the endpoint and depth of the call
CircularChainsOfCall ==
    SelectSeq(build_call_chains(Current, <<arg.endpoint>>, arg.max_depth),
              LAMBDA c : c.is_circular)

\* C18: in the tree a successor that is on the path from the root is a child
\* marked is_circular without children, and its siblings are expanded; the
\* node sequences from the root to the leaves marked circular are exactly the
\* node sequences of the circular chains of build_call_chains for the same
\* endpoint and max_depth
C18_CircularLeavesAreCircularChains ==
    TreeAnswered =>
        IF DOMAIN ret = {} THEN CircularChainsOfCall = <<>>
        ELSE /\ CycleRule(call_graph, ret, <<>>, arg.max_depth)
             /\ CircularLeaves(ret, <<>>)
                   = [i \in DOMAIN CircularChainsOfCall |-> CircularChainsOfCall[i].chain]

\* C18 witness: a tree with two leaves marked circular under different
\* parents, one of them with a sibling that has children of its own
C18_CircularLeafWithExpandedSibling ==
    /\ TreeAnswered
    /\ DOMAIN ret # {}
    /\ Len(CircularLeaves(ret, <<>>)) >= 2
    /\ \E i \in DOMAIN ret.children :
          /\ ret.children[i].is_circular
          /\ \E j \in DOMAIN ret.children : j > i /\ ret.children[j].children # <<>>

(***************************************************************************)
(* The paths of detect_circular_references (SpecGraph)                     *)
(***************************************************************************)
\* the strongly connected components of more than one node, as sets of nodes
LargeComponents(g) ==
    {ComponentOf(g, n) : n \in {m \in Range(g.nodes) : Cardinality(ComponentOf(g, m)) > 1}}

\* consecutive entries are edges and the last entry is the first
ConcreteCycle(g, path) ==
    /\ Len(path) >= 2
    /\ \A k \in 1..(Len(path) - 1) : path[k + 1] \in Range(g.succ[path[k]])
    /\ Last(path) = path[1]

\* C19: detect_circular_references returns exactly one path for each strongly
\* connected component of more than one node, and every path is a concrete
\* cycle: consecutive entries are edges of the graph and the last entry is the
\* first
C19_OneConcreteCyclePerComponent ==
    CyclesDetected =>
        /\ Len(ret) = Cardinality(LargeComponents(call_graph))
        /\ \A c \in LargeComponents(call_graph) :
              \E i \in DOMAIN ret : Range(ret[i]) \subseteq c
        /\ \A i \in DOMAIN ret : ConcreteCycle(call_graph, ret[i])

(***************************************************************************)
(* _find_upper_layer_files on call graphs with a long and a short way up   *)
(* (SpecWalk): Dao.query is called by StepService.s1, s1 by s2 and so on   *)
(* up to sk, sk by OrderFacade.run, which may also call Dao.query itself,  *)
(* and OrderFacade.run by EntryController.entry.                           *)
(***************************************************************************)
StepMethods == <<"s1", "s2", "s3", "s4", "s5", "s6", "s7", "s8", "s9", "s10",
                 "s11", "s12", "s13", "s14", "s15", "s16", "s17", "s18", "s19", "s20">>

\* the lengths of the row of steps
StepCounts == {0, 1, 2, 18, 19, 20}

DaoFile ==
    SourceFile("dao/Dao.java",
        <<ClassInfo("Dao", "com.shop.dao", <<>>, <<>>, <<>>,
                    <<Method("query", <<>>, <<>>, <<>>, <<>>)>>, "dao/Dao.java")>>,
        EmptyDict)

StepsFile(k) ==
    SourceFile("service/StepService.java",
        <<ClassInfo("StepService", "com.shop.service", <<>>, <<>>, <<>>,
            [i \in 1..k |-> Method(StepMethods[i], <<>>, <<>>, <<>>,
                                   <<IF i = 1 THEN "Dao.query" ELSE StepMethods[i - 1]>>)],
            "service/StepService.java")>>,
        EmptyDict)

FacadeFile(k, direct) ==
    SourceFile("service/OrderFacade.java",
        <<ClassInfo("OrderFacade", "com.shop.service", <<>>, <<>>, <<>>,
            <<Method("run", <<>>, <<>>, <<>>,
                     (IF k > 0 THEN <<"StepService." \o StepMethods[k]>> ELSE <<>>)
                     \o (IF direct THEN <<"Dao.query">> ELSE <<>>))>>,
            "service/OrderFacade.java")>>,
        EmptyDict)

EntryFile ==
    SourceFile("web/EntryController.java",
        <<ClassInfo("EntryController", "com.shop.web", <<>>, <<>>, <<>>,
            <<Method("entry", <<>>, <<>>, <<>>, <<"OrderFacade.run">>)>>,
            "web/EntryController.java")>>,
        EmptyDict)

\* the projects: the steps before or after the facade, the entry last
WalkFileLists ==
    {<<IF dao_readable THEN DaoFile ELSE Unreadable(DaoFile)>>
     \o (IF steps_first THEN <<StepsFile(k), FacadeFile(k, direct)>>
         ELSE <<FacadeFile(k, direct), StepsFile(k)>>)
     \o (IF with_entry THEN <<EntryFile>> ELSE <<>>) :
        k \in StepCounts, direct \in BOOLEAN, steps_first \in BOOLEAN,
        with_entry \in BOOLEAN, dao_readable \in BOOLEAN}

WalkMethodStrings == {"Dao.query", "query", "StepService.s1", "OrderFacade.run",
                      "EntryController.entry", "Missing.none", "UserMapper.query"}

\* a DBAccessAnalyzer on the builder as it is now
WalkAnalyzer == [access_tables |-> <<>>, call_graph_builder |-> <<Current>>]

Call_find_upper_layer_files(method_string) ==
    /\ op' = "_find_upper_layer_files"
    /\ arg' = [method_string |-> method_string]
    /\ ret' = _find_upper_layer_files(WalkAnalyzer, method_string)
    /\ UNCHANGED <<builder, cache, pool, builds>>

NextWalk ==
    \/ builds = 0 /\ \E java_files \in WalkFileLists : Call_build_call_graph(java_files)
    \/ \E method_string \in WalkMethodStrings : Call_find_upper_layer_files(method_string)

SpecWalk == Init /\ [][NextWalk]_vars

RECURSIVE CallersWithin(_, _, _)
\* the nodes from which n is reached by at most d edges, n included
CallersWithin(g, n, d) ==
    IF d = 0 THEN {n}
    ELSE LET S == CallersWithin(g, n, d - 1)
         IN S \cup UNION {Range(g.pred[m]) : m \in S}

\* C20: the walk started at a node of the graph returns the pair (layer, file)
\* of every node from which the start is reached by at most 20 edges and
\* which has a layer other than Unknown and a file path
C20_EveryCallerWithinBoundReported ==
    (op = "_find_upper_layer_files" /\ HasNode(call_graph, arg.method_string)) =>
        \A n \in CallersWithin(call_graph, arg.method_string, TraverseMaxDepth) :
            (/\ call_graph.attrs[n].layer \notin {"", "Unknown"}
             /\ call_graph.attrs[n].file_path # "")
            => <<Lower(call_graph.attrs[n].layer), call_graph.attrs[n].file_path>>
                  \in Range(ret)

(***************************************************************************)
(* The starting point of the walk (SpecWalk)                               *)
(***************************************************************************)
\* the walk was asked for a method string that is no node of a graph with nodes
WalkWithoutExactNode ==
    /\ op = "_find_upper_layer_files"
    /\ Len(call_graph.nodes) > 0
    /\ ~HasNode(call_graph, arg.method_string)

RECURSIVE AfterLastDot(_)
\* the text after the last "." of a method string
AfterLastDot(str) ==
    IF Contains(str, ".") THEN AfterLastDot(SubSeq(str, IndexOf(str, ".") + 1, Len(str)))
    ELSE str

\* the positions of the nodes that hold the method string or end with "." and
\* its method name
SubstituteNodes ==
    {i \in DOMAIN call_graph.nodes :
        \/ Contains(call_graph.nodes[i], arg.method_string)
        \/ EndsWith(call_graph.nodes[i], "." \o AfterLastDot(arg.method_string))}

\* C21 as stated: when the graph has no node with the exact signature the walk
\* returns no (layer, file) pair: no other node is taken as the starting point
C21_NoWalkWithoutExactNode ==
    WalkWithoutExactNode => ret = <<>>

\* C21 amended: when the graph has no node with the exact signature the walk
\* starts at the first node, in node order, that holds the method string or
\* ends with "." and its method name, and returns what the walk from that
\* node returns; without such a node it returns no pair
C21_WalkFromSubstituteNode ==
    WalkWithoutExactNode =>
        IF SubstituteNodes = {} THEN ret = <<>>
        ELSE ret = _find_upper_layer_files(
                       WalkAnalyzer,
                       call_graph.nodes[CHOOSE i \in SubstituteNodes :
                                           \A j \in SubstituteNodes : i <= j])

\* C21 witness: asked for UserMapper.query on a graph without that node, the
\* walk returns the callers of Dao.query
C21_CallersOfAnotherQuery ==
    /\ WalkWithoutExactNode
    /\ arg.method_string = "UserMapper.query"
    /\ HasNode(call_graph, "Dao.query")
    /\ \E i \in DOMAIN ret : ret[i][2] = "service/OrderFacade.java"

(***************************************************************************)
(* The layer breakdown of a TableAccessInfo (SpecDB)                       *)
(***************************************************************************)
\* the class index the analyzer of the run collects
CollectedClassInfo == _collect_class_info_map(Analyzer, arg.source_files)

\* C22: in every TableAccessInfo a file path is listed under at most one
\* layer of layer_files, access_files is the union of the file lists of all
\* layers, and the file of the namespace class of the first matched query,
\* attributed before anything else, is listed under interface
C22_OneLayerPerFile ==
    op = "analyze" =>
        \A i \in DOMAIN ret :
            /\ \A j, k \in DOMAIN ret[i].layer_files :
                  j # k => /\ ret[i].layer_files[j].key # ret[i].layer_files[k].key
                           /\ Range(ret[i].layer_files[j].value)
                                 \cap Range(ret[i].layer_files[k].value) = {}
            /\ Range(ret[i].access_files)
                  = UNION {Range(ret[i].layer_files[j].value) : j \in DOMAIN ret[i].layer_files}
            /\ \A j, k \in DOMAIN ret[i].access_files :
                  j # k => ret[i].access_files[j] # ret[i].access_files[k]
            /\ LET namespace == ret[i].sql_queries[1].namespace
                   file == IF namespace = "" THEN ""
                           ELSE _find_class_file(namespace, CollectedClassInfo)
               IN file # "" => KeysOf(ret[i], file) = {"interface"}

\* C22 witness: the file of OrderService is listed under interface, as the
\* namespace class of a query matched first, in a record that also holds a
\* query of OrderMapper whose walk reaches OrderService as a service
C22_ServiceFileUnderInterface ==
    /\ op = "analyze"
    /\ arg.with_builder
    /\ builds = 1
    /\ \E i \in DOMAIN ret :
          /\ KeysOf(ret[i], OrderServiceFile.path) = {"interface"}
          /\ OrderControllerFile.path \in LayerFilesOf(ret[i], "controller")
          /\ \E q \in Range(ret[i].sql_queries) : q.id = "selectById"
          /\ <<"service", OrderServiceFile.path>>
                \in Range(_find_upper_layer_files(Analyzer, "OrderMapper.selectById"))

\* C23: the layer of a TableAccessInfo is Unknown when layer_files is empty;
\* otherwise it is the capitalised key of a layer with the most files, the
\* first such layer in the order in which the layers received their first file
C23_LayerIsFirstLargest ==
    op = "analyze" =>
        \A i \in DOMAIN ret :
            IF ret[i].layer_files = <<>> THEN ret[i].layer = "Unknown"
            ELSE \E j \in DOMAIN ret[i].layer_files :
                    /\ Lower(ret[i].layer) = ret[i].layer_files[j].key
                    /\ ret[i].layer # ret[i].layer_files[j].key
                    /\ \A k \in DOMAIN ret[i].layer_files :
                          Len(ret[i].layer_files[k].value) <= Len(ret[i].layer_files[j].value)
                    /\ \A k \in 1..(j - 1) :
                          Len(ret[i].layer_files[k].value) < Len(ret[i].layer_files[j].value)

\* C23 witness: a record whose second layer, service with two files, is the
\* main layer
C23_SecondLayerIsLargest ==
    /\ op = "analyze"
    /\ \E i \in DOMAIN ret :
          /\ Len(ret[i].layer_files) = 3
          /\ ret[i].layer_files[2].key = "service"
          /\ Len(ret[i].layer_files[2].value) = 2
          /\ ret[i].layer = "Service"

(***************************************************************************)
(* JavaASTParser._extract_method_calls                                     *)
(* A syntax node is [type, text, children]; text is kept for the leaves.   *)
(***************************************************************************)
Node(type, text, children) == [type |-> type, text |-> text, children |-> children]

RECURSIVE Join(_, _)
\* sep.join(parts)
Join(parts, sep) ==
    IF parts = <<>> THEN ""
    ELSE IF Len(parts) = 1 THEN parts[1]
    ELSE parts[1] \o sep \o Join(Tail(parts), sep)

RECURSIVE RSplitHead(_, _)
\* s.rsplit(sep, 1)[0] for an s that holds sep: the text before the last sep
RSplitHead(str, sep) ==
    LET i == IndexOf(str, sep)
        rest == SubSeq(str, i + Len(sep), Len(str))
    IN IF Contains(rest, sep)
       THEN SubSeq(str, 1, i + Len(sep) - 1) \o RSplitHead(rest, sep)
       ELSE SubSeq(str, 1, i - 1)

\* the last "." or "::" among the children, "" for None
SeparatorOf(children) ==
    LET seps == {i \in DOMAIN children : children[i].type \in {".", "::"}}
    IN IF seps = {} THEN "" ELSE children[CHOOSE i \in seps : \A j \in seps : j <= i].type

RECURSIVE extract_from_field_access(_)
\* the nested extract_from_field_access: "" stands for None
extract_from_field_access(field_node) ==
    LET Step(parts, child) ==
            IF child.type = "identifier"
            THEN IF child.text # "this" THEN Append(parts, child.text) ELSE parts
            ELSE IF child.type = "field_access"
            THEN LET nested_result == extract_from_field_access(child)
                 IN IF nested_result # "" THEN Append(parts, nested_result) ELSE parts
            ELSE parts
        parts == FoldLeft(Step, <<>>, field_node.children)
        separator == SeparatorOf(field_node.children)
    IN IF parts # <<>>
       THEN IF separator # "" /\ Len(parts) > 1 THEN Join(parts, separator) ELSE parts[1]
       ELSE ""

RECURSIVE extract_method_call_from_node(_)
\* the nested extract_method_call_from_node: "" stands for None
extract_method_call_from_node(method_node) ==
    LET method_children == method_node.children
        lists == {i \in DOMAIN method_children : method_children[i].type = "argument_list"}
        argument_list_idx == IF lists = {} THEN 0 ELSE CHOOSE i \in lists : \A j \in lists : i <= j
        method_name == IF argument_list_idx > 1
                          /\ method_children[argument_list_idx - 1].type = "identifier"
                       THEN method_children[argument_list_idx - 1].text
                       ELSE ""
        nested == SelectSeq([i \in DOMAIN method_children |->
                                IF method_children[i].type = "method_invocation"
                                THEN extract_method_call_from_node(method_children[i])
                                ELSE ""],
                            LAMBDA r : r # "")
        Step(parts, child) ==
            IF child.type = "identifier"
            THEN IF child.text # "this" THEN Append(parts, child.text) ELSE parts
            ELSE IF child.type = "field_access"
            THEN LET field_result == extract_from_field_access(child)
                 IN IF field_result # "" THEN Append(parts, field_result) ELSE parts
            ELSE IF child.type = "method_invocation"
            THEN LET nested_result == extract_method_call_from_node(child)
                     object_part == IF Contains(nested_result, ".")
                                    THEN RSplitHead(nested_result, ".")
                                    ELSE IF Contains(nested_result, "::")
                                    THEN RSplitHead(nested_result, "::")
                                    ELSE ""
                 IN IF nested_result # "" /\ object_part # "" THEN Append(parts, object_part)
                    ELSE parts
            ELSE parts
        before == SubSeq(method_children, 1, argument_list_idx - 1)
        parts == FoldLeft(Step, <<>>, before)
        separator == SeparatorOf(before)
        dot == IF separator # "" THEN separator ELSE "."
    IN IF method_name = ""
       THEN IF nested # <<>> THEN nested[1] ELSE ""
       ELSE IF Len(parts) >= 2
       THEN LET object_parts == SubSeq(parts, 1, Len(parts) - 1)
                object_name == IF separator # "" THEN Join(object_parts, separator)
                               ELSE object_parts[1]
            IN object_name \o dot \o method_name
       ELSE IF Len(parts) = 1
       THEN IF parts[1] = method_name THEN method_name
            ELSE parts[1] \o dot \o method_name
       ELSE method_name

RECURSIVE _extract_method_calls(_)
\* _extract_method_calls: the call strings of a node and of its descendants
_extract_method_calls(node) ==
    LET method_call == IF node.type = "method_invocation"
                       THEN extract_method_call_from_node(node) ELSE ""
    IN (IF method_call # "" THEN <<method_call>> ELSE <<>>)
       \o FoldLeft(LAMBDA calls, child : calls \o _extract_method_calls(child),
                   <<>>, node.children)

(***************************************************************************)
(* Call sites as the grammar gives them (SpecCalls)                        *)
(***************************************************************************)
Token(type) == Node(type, type, <<>>)

Identifier(name) == Node("identifier", name, <<>>)

ArgumentList(arguments) ==
    Node("argument_list", "", <<Token("(")>> \o arguments \o <<Token(")")>>)

\* object.name(arguments), or name(arguments) when object is <<>>
MethodInvocation(object, name, arguments) ==
    Node("method_invocation", "",
         (IF object = <<>> THEN <<>> ELSE <<object[1], Token(".")>>)
         \o <<Identifier(name), ArgumentList(arguments)>>)

FieldAccess(object, field) ==
    Node("field_access", "", <<object, Token("."), Identifier(field)>>)

\* new type(arguments)
ObjectCreation(type, arguments) ==
    Node("object_creation_expression", "",
         <<Token("new"), Node("type_identifier", type, <<>>), ArgumentList(arguments)>>)

Receivers ==
    {<<>>, <<Identifier("repo")>>, <<Token("this")>>,
     <<FieldAccess(Token("this"), "vets")>>, <<FieldAccess(Identifier("a"), "b")>>,
     <<MethodInvocation(<<Identifier("repo")>>, "get", <<>>)>>,
     <<MethodInvocation(<<>>, "get", <<>>)>>,
     <<ObjectCreation("T", <<>>)>>, <<ObjectCreation("Builder", <<Identifier("x")>>)>>,
     <<ObjectCreation("T", <<MethodInvocation(<<Identifier("repo")>>, "load", <<>>)>>)>>}

CalledNames == {"m", "save", "get"}

Arguments ==
    {<<>>, <<Identifier("x")>>, <<MethodInvocation(<<Identifier("log")>>, "info", <<>>)>>,
     <<ObjectCreation("T", <<>>)>>}

CallSites ==
    {MethodInvocation(object, name, arguments) :
        object \in Receivers, name \in CalledNames, arguments \in Arguments}

InitCalls ==
    /\ Constructed
    /\ builds = 0
    /\ op = "input"
    /\ arg \in [node : CallSites]
    /\ ret = <<>>

Call_extract_method_calls ==
    /\ op = "input"
    /\ op' = "_extract_method_calls"
    /\ ret' = _extract_method_calls(arg.node)
    /\ UNCHANGED <<builder, cache, pool, builds, arg>>

NextCalls == Call_extract_method_calls

SpecCalls == InitCalls /\ [][NextCalls]_vars

\* C24: a call whose receiver is an object-creation expression new T(...)
\* yields the call-site string T.m, with the constructed type as the receiver
C24_ConstructedTypeIsReceiver ==
    (/\ op = "_extract_method_calls"
     /\ arg.node.children[1].type = "object_creation_expression")
    => /\ ret # <<>>
       /\ ret[1] = arg.node.children[1].children[2].text \o "."
                   \o arg.node.children[3].text

(***************************************************************************)
(* parse_file called by the workers of a pool (SpecPool).  A worker is at  *)
(* one of the places of parse_file where it touches the cache: in front of *)
(* get_cached_result, after a miss (reading and parsing, which touch no    *)
(* shared state), or in front of set_cached_result.  The two calls on the  *)
(* cache manager are taken to be atomic.                                   *)
(***************************************************************************)
\* what parse_file hands back to its caller
Returned(file_path, tree, error) ==
    [file_path |-> file_path, tree |-> tree, error |-> error]

\* a worker enters parse_file
Worker_parse_file(w, file_path) ==
    /\ workers[w].pc = "idle"
    /\ workers' = [workers EXCEPT ![w] =
          [pc |-> "get_cached_result", file_path |-> file_path, tree |-> <<>>,
           result |-> <<>>]]
    /\ UNCHANGED <<builder, cache, parses, builds, op, arg, ret>>

\* cached_ast = self.cache_manager.get_cached_result(file_path), returned if
\* there is one
Worker_get_cached_result(w) ==
    /\ workers[w].pc = "get_cached_result"
    /\ workers' = [workers EXCEPT ![w] =
          IF workers[w].file_path \in DOMAIN cache
          THEN Idle(Returned(workers[w].file_path, <<cache[workers[w].file_path]>>, ""))
          ELSE [workers[w] EXCEPT !.pc = "parse"]]
    /\ UNCHANGED <<builder, cache, parses, builds, op, arg, ret>>

\* the loop over the encodings and self.parser.parse, with the returns and
\* handlers that end the call without a tree
Worker_parse(w) ==
    /\ workers[w].pc = "parse"
    /\ \E file_path \in {workers[w].file_path} :
       \E read \in {ReadSource(arg.disk[file_path], 1)} :
          IF read.source_code = <<>>
          THEN /\ workers' = [workers EXCEPT ![w] =
                     Idle(Returned(file_path, <<>>,
                          IF arg.disk[file_path][Len(ENCODINGS)].raises = "FileNotFoundError"
                          THEN FileNotFoundMessage(file_path)
                          ELSE NoEncodingError(file_path)))]
               /\ UNCHANGED parses
          ELSE IF arg.parser_raises # ""
          THEN /\ workers' = [workers EXCEPT ![w] =
                     Idle(Returned(file_path, <<>>, ParseErrorMessage(arg.parser_raises)))]
               /\ UNCHANGED parses
          ELSE /\ workers' = [workers EXCEPT ![w] =
                     [workers[w] EXCEPT !.pc = "set_cached_result",
                                        !.tree = <<Tree(read.source_code[1])>>]]
               /\ parses' = [parses EXCEPT ![file_path].parsed = @ + 1]
    /\ UNCHANGED <<builder, cache, builds, op, arg, ret>>

\* self.cache_manager.set_cached_result(file_path, tree); return tree, None
Worker_set_cached_result(w) ==
    /\ workers[w].pc = "set_cached_result"
    /\ cache' = Put(cache, workers[w].file_path, workers[w].tree[1])
    /\ parses' = [parses EXCEPT ![workers[w].file_path].stored = @ + 1]
    /\ workers' = [workers EXCEPT ![w] =
          Idle(Returned(workers[w].file_path, workers[w].tree, ""))]
    /\ UNCHANGED <<builder, builds, op, arg, ret>>

\* Universe of SpecPool: A.java is readable with the first or only with the
\* second encoding, B.java is missing or empty
PoolReads == {[i \in DOMAIN ENCODINGS |-> Text("class A {}")],
              [i \in DOMAIN ENCODINGS |-> IF i = 1 THEN Fails("UnicodeDecodeError")
                                          ELSE Text("class A {}")]}

InitPool ==
    /\ Constructed
    /\ builds = 0
    /\ op = "input"
    /\ \E a \in PoolReads, b \in FixedReads :
          arg \in [disk : {[p \in ParsePaths |-> IF p = "A.java" THEN a ELSE b]},
                   parser_raises : {"", "ValueError"}]
    /\ ret = <<>>

NextPool ==
    \E w \in Workers :
       \/ \E file_path \in ParsePaths : Worker_parse_file(w, file_path)
       \/ Worker_get_cached_result(w)
       \/ Worker_parse(w)
       \/ Worker_set_cached_result(w)

SpecPool == InitPool /\ [][NextPool]_vars

\* C25: each file is parsed, and its cache entry written, at most once, however
\* the calls of the workers interleave
C25_ParsedAndStoredAtMostOnce ==
    \A p \in ParsePaths : parses[p].parsed <= 1 /\ parses[p].stored <= 1

(***************************************************************************)
(* DataPersistenceManager.save_to_file (SpecSave).  The file system and    *)
(* the encoder are inputs: what mkdir, json.dumps and open/write do.  A    *)
(* result is the exception that leaves the method ("" for none) and the    *)
(* path returned.                                                          *)
(***************************************************************************)
\* the base class of each exception class of the model
BaseOf ==
    [PermissionError |-> "OSError", OSError |-> "Exception",
     TypeError |-> "Exception", ValueError |-> "Exception",
     UnicodeEncodeError |-> "ValueError", RecursionError |-> "RuntimeError",
     RuntimeError |-> "Exception", UnboundLocalError |-> "NameError",
     NameError |-> "Exception", PersistenceError |-> "Exception"]

RECURSIVE IsInstance(_, _)
\* isinstance(exception, class), as an except clause decides it
IsInstance(exception, class) ==
    \/ exception = class
    \/ exception \in DOMAIN BaseOf /\ IsInstance(BaseOf[exception], class)

\* self.output_dir of a manager for the project "proj"
output_dir == "proj/.applycrypto/results"

\* serialize_to_json: a TypeError or ValueError of json.dumps becomes a
\* PersistenceError, any other exception leaves as it is
serialize_to_json(dumps) ==
    IF dumps = "" THEN ""
    ELSE IF IsInstance(dumps, "TypeError") \/ IsInstance(dumps, "ValueError")
    THEN "PersistenceError"
    ELSE dumps

\* the try block of save_to_file: the exception that leaves it, whether
\* file_path had been assigned by then, and the path
SaveBody(fs, filename, subdirectory) ==
    With(IF subdirectory = "" THEN output_dir ELSE output_dir \o "/" \o subdirectory,
         LAMBDA save_dir :
    With(save_dir \o "/" \o filename, LAMBDA file_path :
         IF subdirectory # "" /\ fs.mkdir # ""
         THEN [raises |-> fs.mkdir, bound |-> FALSE, file_path |-> ""]
         ELSE IF serialize_to_json(fs.dumps) # ""
         THEN [raises |-> serialize_to_json(fs.dumps), bound |-> TRUE,
               file_path |-> file_path]
         ELSE [raises |-> fs.write, bound |-> TRUE, file_path |-> file_path]))

\* save_to_file(data, filename, subdirectory): the first handler formats
\* file_path into its message, which raises UnboundLocalError out of the
\* handler when the name was never assigned
save_to_file(fs, filename, subdirectory) ==
    With(SaveBody(fs, filename, subdirectory), LAMBDA body :
         IF body.raises = "" THEN [raises |-> "", value |-> body.file_path]
         ELSE IF IsInstance(body.raises, "OSError")
         THEN [raises |-> IF body.bound THEN "PersistenceError" ELSE "UnboundLocalError",
               value |-> ""]
         ELSE IF IsInstance(body.raises, "PersistenceError")
         THEN [raises |-> body.raises, value |-> ""]
         ELSE [raises |-> "PersistenceError", value |-> ""])

\* Universe of SpecSave
Filenames == {"methods.json", "calls.json"}

Subdirectories == {"", "v1"}

FileSystems ==
    [mkdir : {"", "OSError", "PermissionError"},
     dumps : {"", "TypeError", "ValueError", "RecursionError"},
     write : {"", "OSError", "PermissionError", "UnicodeEncodeError"}]

InitSave ==
    /\ Constructed
    /\ builds = 0
    /\ op = "input"
    /\ arg \in [fs : FileSystems, filename : Filenames, subdirectory : Subdirectories]
    /\ ret = <<>>

Call_save_to_file ==
    /\ op = "input"
    /\ op' = "save_to_file"
    /\ ret' = save_to_file(arg.fs, arg.filename, arg.subdirectory)
    /\ UNCHANGED <<builder, cache, pool, builds, arg>>

NextSave == Call_save_to_file

SpecSave == InitSave /\ [][NextSave]_vars

\* C27: save_to_file returns the path of the written file or raises
\* PersistenceError, whichever step of saving failed
C27_PathOrPersistenceError ==
    op = "save_to_file"
    => \/ ret.raises = "" /\ ret.value # ""
       \/ ret.raises = "PersistenceError"

(***************************************************************************)
(* Queries running side by side on a built graph (SpecQueries).  A worker  *)
(* holds the locals of its call in its frame: the query, the position in   *)
(* start_nodes and the chains collected so far.  build_call_chains is      *)
(* interleaved between two start nodes, the other two queries run in one   *)
(* step; build_call_graph runs once, before any query.                     *)
(***************************************************************************)
\* the arguments of one query; endpoint <<>> is None, o the iteration order
\* that a cycle detection meets
GraphQuery(name, endpoint, o) ==
    [name |-> name, endpoint |-> endpoint, max_depth |-> DefaultMaxDepth, o |-> o]

\* what the query returns when nothing else runs
QueryResult(self, q) ==
    IF q.name = "build_call_chains"
    THEN build_call_chains(self, q.endpoint, q.max_depth)
    ELSE IF q.name = "get_call_tree"
    THEN get_call_tree(self, q.endpoint[1], q.max_depth)
    ELSE detect_circular_references(self, q.o[1])

\* start_nodes of build_call_chains
start_nodes(self, endpoint) ==
    IF endpoint # <<>> THEN <<endpoint[1].method_signature>>
    ELSE [i \in DOMAIN self.endpoints |-> self.endpoints[i].method_signature]

\* the frame of a worker inside a query
Running(q, i, chains) ==
    [pc |-> "running", query |-> q, i |-> i, chains |-> chains, result |-> <<>>]

\* the frame of a worker whose query has returned
Done(q, result) ==
    [pc |-> "done", query |-> q, i |-> 0, chains |-> <<>>, result |-> result]

\* a worker calls a query on the built graph
Worker_query(w, q) ==
    /\ builds > 0
    /\ workers[w].pc \in {"idle", "done"}
    /\ workers' = [workers EXCEPT ![w] = Running(q, 1, <<>>)]
    /\ UNCHANGED <<builder, cache, parses, builds, op, arg, ret>>

\* the body of "for start_node in start_nodes" appends to the list of all
\* chains, which is a field that the calls share
Worker_dfs_shared_chains(w) ==
    /\ workers[w].pc = "running"
    /\ workers[w].query.name = "build_call_chains"
    /\ workers[w].i <= Len(start_nodes(Current, workers[w].query.endpoint))
    /\ \E start_node \in {start_nodes(Current, workers[w].query.endpoint)[workers[w].i]} :
       \E chains \in {IF ~HasNode(call_graph, start_node) THEN ret
                      ELSE dfs(Current, workers[w].query.max_depth,
                               [current_path |-> <<>>, visited_paths |-> {},
                                chains |-> ret],
                               start_node, 0).chains} :
          /\ ret' = chains
          /\ workers' = [workers EXCEPT ![w] =
                Running(workers[w].query, workers[w].i + 1, chains)]
    /\ UNCHANGED <<builder, cache, parses, builds, op, arg>>

\* the body of "for start_node in start_nodes": a fresh path and a fresh set
\* of visited paths, and the chains appended to the list of this call
Worker_dfs(w) ==
    /\ workers[w].pc = "running"
    /\ workers[w].query.name = "build_call_chains"
    /\ workers[w].i <= Len(start_nodes(Current, workers[w].query.endpoint))
    /\ \E start_node \in {start_nodes(Current, workers[w].query.endpoint)[workers[w].i]} :
       \E chains \in {IF ~HasNode(call_graph, start_node) THEN workers[w].chains
                      ELSE dfs(Current, workers[w].query.max_depth,
                               [current_path |-> <<>>, visited_paths |-> {},
                                chains |-> workers[w].chains],
                               start_node, 0).chains} :
          workers' = [workers EXCEPT ![w] =
                Running(workers[w].query, workers[w].i + 1, chains)]
    /\ UNCHANGED <<builder, cache, parses, builds, op, arg, ret>>

\* return chains, after the last start node
Worker_return_chains(w) ==
    /\ workers[w].pc = "running"
    /\ workers[w].query.name = "build_call_chains"
    /\ workers[w].i > Len(start_nodes(Current, workers[w].query.endpoint))
    /\ workers' = [workers EXCEPT ![w] = Done(workers[w].query, workers[w].chains)]
    /\ UNCHANGED <<builder, cache, parses, builds, op, arg, ret>>

\* get_call_tree from its first line to its return
Worker_get_call_tree(w) ==
    /\ workers[w].pc = "running"
    /\ workers[w].query.name = "get_call_tree"
    /\ workers' = [workers EXCEPT ![w] =
          Done(workers[w].query,
               get_call_tree(Current, workers[w].query.endpoint[1],
                             workers[w].query.max_depth))]
    /\ UNCHANGED <<builder, cache, parses, builds, op, arg, ret>>

\* detect_circular_references from its first line to its return
Worker_detect_circular_references(w) ==
    /\ workers[w].pc = "running"
    /\ workers[w].query.name = "detect_circular_references"
    /\ workers' = [workers EXCEPT ![w] =
          Done(workers[w].query,
               detect_circular_references(Current, workers[w].query.o[1]))]
    /\ UNCHANGED <<builder, cache, parses, builds, op, arg, ret>>

\* Universe of SpecQueries: a lead of eight methods in front of A.a and at
\* most two of four core edges, so that L.m1 and A.a are the two endpoints
QueryShapes ==
    {shape \in GraphShapes :
        /\ shape.lead = 8
        /\ Len(shape.edges) <= 2
        /\ Range(shape.edges) \subseteq {1, 2, 4, 6}
        /\ shape.edges = Ascending(Range(shape.edges))}

QueryFileLists == {GraphFiles(shape) : shape \in QueryShapes}

Queries ==
    {GraphQuery("build_call_chains", e, <<>>) : e \in {<<>>, <<EndpointOf("A.a")>>}}
    \cup {GraphQuery("get_call_tree", <<EndpointOf(s)>>, <<>>) : s \in {"A.a", "Missing.none"}}
    \cup {GraphQuery("detect_circular_references", <<>>, <<o>>) : o \in IterationOrders(call_graph)}

NextQueries ==
    \/ builds = 0 /\ \E java_files \in QueryFileLists : Call_build_call_graph(java_files)
    \/ \E w \in Workers :
          \/ \E q \in Queries : Worker_query(w, q)
          \/ Worker_dfs(w)
          \/ Worker_return_chains(w)
          \/ Worker_get_call_tree(w)
          \/ Worker_detect_circular_references(w)

SpecQueries == Init /\ [][NextQueries]_vars

LastOfName(classes, name) ==
    LET same == {i \in DOMAIN classes : classes[i].name = name}
    IN classes[CHOOSE i \in same : \A j \in same : j <= i]

\* the last parsed class that declares a method of a signature, and in it the
\* last method of that name
LastDeclaring(classes, signature) ==
    LET declaring == {i \in DOMAIN classes :
                         \E m \in Range(classes[i].methods) :
                            Signature(classes[i].name, m.name) = signature}
        cls == classes[CHOOSE i \in declaring : \A j \in declaring : j <= i]
        named == {k \in DOMAIN cls.methods :
                     Signature(cls.name, cls.methods[k].name) = signature}
    IN [cls |-> cls, method |-> cls.methods[CHOOSE k \in named : \A j \in named : j <= k]]

\* C28: after build_call_graph every simple name has one class-index entry,
\* the last class of that name; the call sites of every class of the name are
\* resolved against the fields of that last class; and the metadata and node
\* attributes (file, layer) of a signature are those of the last class that
\* declares it
C28_LastClassOfANameWins ==
    op = "build_call_graph" =>
        LET classes == ParsedClasses(arg.java_files)
        IN /\ DOMAIN class_info_map = {cls.name : cls \in Range(classes)}
           /\ \A cls \in Range(classes) :
                 class_info_map[cls.name] = LastOfName(classes, cls.name)
           /\ Edges(call_graph) = RuleEdges(arg.java_files, FALSE)
           /\ DOMAIN method_metadata =
                 UNION {{Signature(cls.name, m.name) : m \in Range(cls.methods)} :
                        cls \in Range(classes)}
           /\ \A signature \in DOMAIN method_metadata :
                 LET d == LastDeclaring(classes, signature)
                 IN /\ method_metadata[signature].file_path = d.cls.file_path
                    /\ method_metadata[signature].package = d.cls.package
                    /\ method_metadata[signature].layer = _classify_layer(d.cls, d.method)
                    /\ HasNode(call_graph, signature)
                       => /\ call_graph.attrs[signature].file_path = d.cls.file_path
                          /\ call_graph.attrs[signature].layer
                                = _classify_layer(d.cls, d.method)

\* C28 witness: the service class parsed before the legacy class of the same
\* name: find of the first class is resolved through the legacy field type,
\* and OrderService.find carries the legacy file while validate, which only
\* the first class declares, keeps its own
C28_LegacyClassParsedLast ==
    /\ op = "build_call_graph"
    /\ "OrderService" \in DOMAIN class_info_map
    /\ class_info_map["OrderService"].package = "com.shop.legacy"
    /\ <<"OrderService.find", "LegacyDao.selectById">> \in Edges(call_graph)
    /\ <<"OrderService.find", "LegacyDao.load">> \in Edges(call_graph)
    /\ method_metadata["OrderService.find"].file_path = "legacy/OrderService.java"
    /\ method_metadata["OrderService.validate"].file_path = "service/OrderService.java"
    /\ call_graph.attrs["OrderService.find"].file_path = "legacy/OrderService.java"

(***************************************************************************)
(* Self-calls in the two cycle reports (SpecGraph)                         *)
(***************************************************************************)
\* the methods that call themselves and lie on no other cycle
SelfCallers(g) ==
    {n \in Range(g.nodes) :
        /\ n \in Range(g.succ[n])
        /\ \A m \in Range(g.nodes) \ {n} :
              ~(m \in ReachSet(g, {n}) /\ n \in ReachSet(g, {m}))}

\* a circular chain of the result ends in a, a
FlaggedSelfCall(chains, a) ==
    \E i \in DOMAIN chains :
        /\ chains[i].is_circular
        /\ Len(chains[i].chain) >= 2
        /\ chains[i].chain[Len(chains[i].chain)] = a
        /\ chains[i].chain[Len(chains[i].chain) - 1] = a

\* the nodes on the cycles that the circular chains close
ChainCycleNodes(chains) ==
    UNION {LET c == chains[i].chain
               first == CHOOSE k \in DOMAIN c : c[k] = Last(c)
           IN {c[k] : k \in first..Len(c)} :
           i \in {j \in DOMAIN chains : chains[j].is_circular}}

\* the nodes on the paths of a cycle report
ReportedNodes(cycles) == UNION {Range(cycles[i]) : i \in DOMAIN cycles}

RECURSIVE ReachedWithin(_, _, _, _)
\* a simple path extends path by at most d edges and ends in a
ReachedWithin(g, path, a, d) ==
    \/ Last(path) = a
    \/ /\ d > 0
       /\ \E v \in Range(g.succ[Last(path)]) \ Range(path) :
             ReachedWithin(g, Append(path, v), a, d - 1)

\* C29 as stated: on a built graph without a lead, where the depth bound cuts
\* nothing, the chains from all endpoints and the cycle detection differ
\* exactly on the self-calls that the endpoints reach: the nodes on cycles
\* that only the chains report are those self-callers, and the detection
\* reports no reachable node that the chains leave out
C29_ReportsDifferExactlyOnSelfCalls ==
    (op = "build_call_graph" /\ ~HasNode(call_graph, "L.m1")) =>
        \A o \in IterationOrders(call_graph) :
            LET reach == ReachSet(call_graph,
                                  {endpoints[i].method_signature : i \in DOMAIN endpoints}
                                  \cap Range(call_graph.nodes))
                flagged == ChainCycleNodes(build_call_chains(Current, <<>>, DefaultMaxDepth))
                reported == ReportedNodes(detect_circular_references(Current, o))
            IN /\ flagged \ reported = SelfCallers(call_graph) \cap reach
               /\ (reported \cap reach) \ flagged = {}

\* C29 amended: build_call_chains from a start node flags a self-caller A
\* (A -> A, A on no other cycle) with a circular chain ending in A, A exactly
\* when a simple path of fewer than max_depth edges leads from the start node
\* to A; detect_circular_references reports no self-caller
C29_SelfCallsFlaggedWithinBound ==
    /\ ChainsFromNode =>
          \A a \in SelfCallers(call_graph) :
              FlaggedSelfCall(ret, a)
              <=> ReachedWithin(call_graph, <<arg.endpoint[1].method_signature>>, a,
                                arg.max_depth - 1)
    /\ (op = "detect_circular_references" /\ ~call_graph.is_none) =>
          ReportedNodes(ret) \cap SelfCallers(call_graph) = {}

\* C29 witness: chains from a start node that flag one self-caller and leave
\* out another that the start node reaches only at the depth bound
C29_SelfCallAtTheBound ==
    /\ ChainsFromNode
    /\ \E a, b \in SelfCallers(call_graph) :
          /\ FlaggedSelfCall(ret, a)
          /\ ~FlaggedSelfCall(ret, b)
          /\ b \in ReachSet(call_graph, {arg.endpoint[1].method_signature})

(***************************************************************************)
(* Endpoints that are no node of the graph (Spec)                          *)
(***************************************************************************)
\* the parsed files as the builder holds them in file_to_classes_map
HeldFiles ==
    [i \in DOMAIN file_to_classes_map |->
        [path |-> file_to_classes_map[i].key, classes |-> file_to_classes_map[i].value,
         error |-> ""]]

\* the endpoints whose method is neither the caller nor the callee of a call
\* site of a parsed class
IsolatedEndpoints ==
    {endpoints[i].method_signature : i \in DOMAIN endpoints}
    \ UNION {{e[1], e[2]} : e \in RuleEdges(HeldFiles, FALSE)}

\* C30: the nodes of the graph are the callers and callees of its edges; an
\* endpoint whose method makes no call and is called by no parsed method is in
\* the endpoint list but is no node, no chain of build_call_chains starts
\* with it, and get_call_tree returns the empty mapping for it
C30_IsolatedEndpointIsNoNode ==
    builds > 0 =>
        /\ Range(call_graph.nodes) = UNION {{e[1], e[2]} : e \in Edges(call_graph)}
        /\ \A s \in IsolatedEndpoints :
              /\ ~HasNode(call_graph, s)
              /\ op = "build_call_chains" => \A i \in DOMAIN ret : ret[i].chain[1] # s
              /\ (op = "get_call_tree" /\ arg.endpoint.method_signature = s)
                 => ret = EmptyDict

\* C30 witness: build_call_chains asked for the endpoint health of the
\* controller, which calls nothing and is called by nothing, next to
\* endpoints that are nodes
C30_ChainsOfIsolatedEndpoint ==
    /\ op = "build_call_chains"
    /\ arg.endpoint # <<>>
    /\ arg.endpoint[1].method_signature = "OrderController.health"
    /\ "OrderController.health" \in IsolatedEndpoints
    /\ HasNode(call_graph, "OrderController.getOrder")
    /\ ret = <<>>

====
